---- MODULE Spec2Model ----
(***************************************************************************)
(* A model of neuropythy/hcp/files.py: the subject-id coercion, the        *)
(* normaliser of the subject directory structure, the lazily loaded        *)
(* per-subject file map and the split of combined-hemisphere (cifti)       *)
(* arrays.                                                                 *)
(*                                                                         *)
(* The strings to_subject_id takes apart are sequences of one-character    *)
(* strings.  A path of the structure or of a subject is a sequence of      *)
(* path components, and a component is the sequence of its '.'-separated   *)
(* parts.                                                                  *)
(***************************************************************************)
EXTENDS Integers, Sequences, FiniteSets, TLC

VARIABLES
    fsDirs,      \* os.path.isdir: the directories that exist
    sidArg,      \* to_subject_id: the argument s
    sidResult,   \* to_subject_id: what the call returned or raised (Idle before)
    ss,          \* _organize_subject_directory_structure: the structure given
    orgStack,    \* the calls of _visit still to be made, the next one first
    imgs,        \* imgs: image name -> file
    hems,        \* hems: hemisphere tag -> table -> name -> file
    fmap,        \* fmap: file -> its data
    orgStatus,   \* "running", "returned", or the error raised
    orgVisited,  \* the leaves _visit was called on so far, in order
    splObj,      \* _lookup_fl: the loaded array of a combined-hemisphere file
    splLa,       \* the left atlas mask
    splRa,       \* the right atlas mask
    splTag,      \* the hemisphere tag the property is read under
    splOut,      \* what _f gave for splObj
    splOutT,     \* what _f gave for the transpose of splObj
    fsFiles,     \* os.path.isfile: local file -> what it holds
    bucket,      \* the S3 bucket: key -> what the object holds
    auto_download_options,  \* _auto_download_options
    subjects_dirs,          \* _subjects_dirs
    roiAtlases,    \* _load_fsLR_atlasroi.atlases
    sphereAtlases, \* _load_atlas_sphere.atlases
    opens,         \* the number of calls of subject_filemap made
    pathArg,       \* the subject_path argument of the last call of subject_filemap
    fetchedFrom,   \* file -> the key of the bucket _data_load asked for it
    pulledFrom,    \* file -> the key of the bucket download asked for it
    dlOrder,       \* the keys of the file map in the order the dict yields them
    dlArgs,        \* the arguments of the last call of download
    dlOut,         \* what the last call of download returned or raised
    dlBefore,      \* the files on the disk when download was last called
    dlCalls,       \* the number of calls of download made
    dlLoads,       \* the number of direct calls of _data_load made
    maskOut,       \* what the last direct call of _load_fsLR_atlasroi gave
    sa,            \* the SubjectAccess built by subject_filemap, with its lazy maps
    loadCalls,     \* file -> the outcomes of the lazy map's calls of _load
    fetches,       \* file -> the number of fs.get calls for it
    remoteChecks,  \* the number of fs.exists calls
    reads,         \* leaf -> the outcomes of its reads
    accesses,      \* the number of reads made
    decodes,       \* file -> the number of times it was read since sa was built
    roiLoads,      \* atlas -> the number of times its two mask files were loaded
    pthCall,       \* the last call made on the search paths, with its arguments
    pthOut,        \* what that call returned or raised
    pthCalls,      \* the number of such calls made
    autoArgs,      \* the arguments of the last call of auto_download
    autoOut,       \* what that call raised, if it raised
    autoCalls,     \* the number of calls of auto_download made
    credArg,       \* to_credentials: the argument
    credDisk,      \* the text files that open() finds: name -> what the file holds
    credOut,       \* to_credentials: what the call returned or raised
    s3fs,          \* whether `import s3fs` succeeded (s3fs is not None)
    threads        \* the callers that run at once: each one's call and position

sidVars == <<fsDirs, sidArg, sidResult>>

orgVars == <<ss, orgStack, imgs, hems, fmap, orgStatus, orgVisited>>

splVars == <<splObj, splLa, splRa, splTag, splOut, splOutT>>

pthVars == <<pthCall, pthOut, pthCalls>>

autoVars == <<autoArgs, autoOut, autoCalls>>

credVars == <<credArg, credDisk, credOut, s3fs>>

saVars ==
  <<opens, pathArg, maskOut, fetchedFrom, pulledFrom, dlOrder, dlArgs, dlOut,
      dlBefore, dlCalls, dlLoads, fsFiles, bucket, auto_download_options,
      subjects_dirs, roiAtlases, sphereAtlases, sa, loadCalls, fetches,
      remoteChecks, reads, accesses, decodes, roiLoads, pthCall, pthOut, pthCalls,
      autoArgs, autoOut, autoCalls, credArg, credDisk, credOut, s3fs, threads>>

vars == <<sidVars, orgVars, splVars, saVars>>

----------------------------------------------------------------------------
(* Generic helpers *)

Last(q) == q[Len(q)]

Range(q) == {q[i] : i \in DOMAIN q}

\* Python's str.split(sep)[-1]: what follows the last separator (the whole
\* string when there is none).
RECURSIVE LastComponent(_, _)
LastComponent(str, sep) ==
    IF str = <<>> THEN <<>>
    ELSE IF Last(str) = sep THEN <<>>
    ELSE Append(LastComponent(SubSeq(str, 1, Len(str) - 1), sep), Last(str))

Digits == <<"0", "1", "2", "3", "4", "5", "6", "7", "8", "9">>

IsDigit(c) == \E d \in DOMAIN Digits : Digits[d] = c

DigitVal(c) == (CHOOSE d \in DOMAIN Digits : Digits[d] = c) - 1

\* int(str) of a string of decimal digits
RECURSIVE ParseNat(_)
ParseNat(str) ==
    IF str = <<>> THEN 0
    ELSE 10 * ParseNat(SubSeq(str, 1, Len(str) - 1)) + DigitVal(Last(str))

----------------------------------------------------------------------------
(* to_subject_id *)

OsSep == "/"

HomeDir == <<"/", "h">>

\* os.path.expanduser: a leading ~ becomes the home directory
expanduser(str) ==
    IF str # <<>> /\ str[1] = "~" THEN HomeDir \o Tail(str) ELSE str

\* the directory a path names: a separator at its end does not change it
DirOf(str) ==
    IF Len(str) > 1 /\ Last(str) = OsSep THEN SubSeq(str, 1, Len(str) - 1) ELSE str

\* os.path.isdir
isdir(str) == DirOf(str) \in fsDirs

Raise(e) == [err |-> e, v |-> 0]

Return(n) == [err |-> "none", v |-> n]

\* no call made yet
Idle == [err |-> "idle", v |-> 0]

\* A number is [t |-> "int", n] or [t |-> "float", n] with n in tenths; a
\* string is [t |-> "str", s]; anything else is [t |-> "other"].
IntArg(n) == [t |-> "int", n |-> n, s |-> <<>>]

FloatArg(tenths) == [t |-> "float", n |-> tenths, s |-> <<>>]

StrArg(str) == [t |-> "str", n |-> 0, s |-> str]

OtherArg == [t |-> "other", n |-> 0, s |-> <<>>]

\* int(x) of a float given in tenths: truncation toward zero
TruncTenths(n) == IF n >= 0 THEN n \div 10 ELSE -((-n) \div 10)

\* int(s) of a string: the decimal digits, or ValueError
IntOfStr(str) ==
    IF str # <<>> /\ \A i \in DOMAIN str : IsDigit(str[i])
    THEN Return(ParseNat(str))
    ELSE Raise("ValueError")

\* a range test that lets five-digit numbers through
RangeCheckLax(n) ==
    IF n > 999999 \/ n < 10000 THEN Raise("ValueError") ELSE Return(n)

RangeCheck(n) ==
    IF n > 999999 \/ n < 100000 THEN Raise("ValueError") ELSE Return(n)

\* a coercion that does not take the last component of a directory path
to_subject_id_keep_path(a) ==
    IF a.t = "other" THEN Raise("ValueError")
    ELSE IF a.t = "str"
    THEN LET parsed == IntOfStr(expanduser(a.s))
         IN  IF parsed.err # "none" THEN parsed ELSE RangeCheck(parsed.v)
    ELSE RangeCheck(IF a.t = "float" THEN TruncTenths(a.n) ELSE a.n)

to_subject_id(a) ==
    IF a.t = "other" THEN Raise("ValueError")
    ELSE IF a.t = "str"
    THEN LET s1 == expanduser(a.s)
             s2 == IF isdir(s1) THEN LastComponent(s1, OsSep) ELSE s1
             parsed == IntOfStr(s2)
         IN  IF parsed.err # "none" THEN parsed ELSE RangeCheck(parsed.v)
    ELSE RangeCheck(IF a.t = "float" THEN TruncTenths(a.n) ELSE a.n)

----------------------------------------------------------------------------
(* The subject directory structure and its normaliser                      *)
(* (_organize_subject_directory_structure).                                *)
(*                                                                         *)
(* A node of the structure is a directory Dir(contents), a leaf, or a      *)
(* tuple Alts(...) of leaves that share one file.  The contents of a       *)
(* directory are a sequence of <<key, node>> in the dict's iteration       *)
(* order.  A 'hemi' entry is a single tag, a tuple of tags, or absent; a   *)
(* tag such as lh_LR32k_MSMAll is the sequence of its parts, the first of  *)
(* them the two letters of the side: <<"lh", "LR32k", "MSMAll">>.          *)

None == "None"

NoHemi == [tuple |-> FALSE, tags |-> <<>>]

OneHemi(tag) == [tuple |-> FALSE, tags |-> <<tag>>]

HemiTuple(tags) == [tuple |-> TRUE, tags |-> tags]

Dir(contents) == [type |-> "dir", contents |-> contents]

Alts(us) == [type |-> "tuple", alts |-> us]

Leaf(t, name, hemi, load, filt) ==
    [type |-> t, name |-> name, hemi |-> hemi, load |-> load, filt |-> filt]

\* a dict: a function from its keys
EmptyDict == [k \in {} |-> None]

Put(d, k, v) == (k :> v) @@ d

Has(d, k) == k \in DOMAIN d

\* os.path.join(path, key) on sequences of components; join('', key) is key
PathJoin(path, key) == Append(path, key)

NewHemiTables == [registrations |-> EmptyDict, surfaces |-> EmptyDict,
                  properties |-> EmptyDict]

\* for hh in hs: if hh not in hems: hems[hh] = {...}
RECURSIVE EnsureHemis(_, _)
EnsureHemis(hm, hs) ==
    IF hs = <<>> THEN hm
    ELSE EnsureHemis(IF Has(hm, Head(hs)) THEN hm
                     ELSE Put(hm, Head(hs), NewHemiTables),
                     Tail(hs))

OrgState(im, hm, fm, err) ==
    [imgs |-> im, hems |-> hm, fmap |-> fm, err |-> err]

\* a walk without the duplicate test
NameTakenNever(d, name) == FALSE

\* if name in imgs / if name in hems[h][...]: the duplicate test
NameTaken(d, name) == name \in DOMAIN d

\* a registration that leaves the tables as they are
RegisterNothing(hm, h, table, name, flnm) == hm

\* hems[h][table][name] = flnm
Register(hm, h, table, name, flnm) ==
    Put(hm, h, [hm[h] EXCEPT ![table] = Put(@, name, flnm)])

\* a registration under the first tag of a tuple only
RegisterFirstTagOnly(hm, hs, name, flnm) ==
    IF NameTaken(hm[Head(hs)].properties, name)
    THEN [hems |-> hm, err |-> "ValueError:duplicate"]
    ELSE [hems |-> Register(hm, Head(hs), "properties", name, flnm), err |-> "none"]

\* a property: for hh in h (the tags of a cifti file, or the one tag):
\* the duplicate test, then hems[hh]['properties'][name] = flnm
RECURSIVE RegisterCifti(_, _, _, _)
RegisterCifti(hm, hs, name, flnm) ==
    IF hs = <<>> THEN [hems |-> hm, err |-> "none"]
    ELSE IF NameTaken(hm[Head(hs)].properties, name)
         THEN [hems |-> hm, err |-> "ValueError:duplicate"]
         ELSE RegisterCifti(Register(hm, Head(hs), "properties", name, flnm),
                            Tail(hs), name, flnm)

TableOf(t) ==
    CASE t = "surface" -> "surfaces"
      [] t = "registration" -> "registrations"
      [] OTHER -> "properties"

\* _visit(u, path, key) for a node that is neither a tuple nor a directory
VisitLeaf(st, u, path, key) ==
    LET name == u.name
        flnm == PathJoin(path, key)
        fmdat == [filt |-> u.filt, load |-> u.load, type |-> u.type, hemi |-> u.hemi,
                  hasCifti |-> FALSE, cifti |-> FALSE]
    IN  IF u.type = "image"
        THEN IF NameTaken(st.imgs, name)
             THEN OrgState(st.imgs, st.hems, st.fmap, "ValueError:duplicate")
             ELSE OrgState(Put(st.imgs, name, flnm), st.hems,
                           Put(st.fmap, flnm, fmdat), "none")
        ELSE IF u.hemi.tags = <<>>
        THEN \* h = u['hemi'] with no 'hemi' in u
             OrgState(st.imgs, st.hems, st.fmap, "KeyError")
        ELSE
        LET h == u.hemi
            hs == h.tags
            fmdat2 == [fmdat EXCEPT !.hasCifti = TRUE, !.cifti = h.tuple]
            hems1 == EnsureHemis(st.hems, hs)
        IN  IF u.type \in {"surface", "registration"}
            THEN IF h.tuple
                 THEN \* hems[h] with h a tuple: no such key
                      OrgState(st.imgs, hems1, st.fmap, "KeyError")
                 ELSE IF NameTaken(hems1[hs[1]][TableOf(u.type)], name)
                 THEN OrgState(st.imgs, hems1, st.fmap, "ValueError:duplicate")
                 ELSE OrgState(st.imgs,
                               Register(hems1, hs[1], TableOf(u.type), name, flnm),
                               Put(st.fmap, flnm, fmdat2), "none")
            ELSE IF u.type = "property"
            THEN LET r == RegisterCifti(hems1, hs, name, flnm)
                 IN  IF r.err # "none"
                     THEN OrgState(st.imgs, r.hems, st.fmap, r.err)
                     ELSE OrgState(st.imgs, r.hems, Put(st.fmap, flnm, fmdat2), "none")
            ELSE OrgState(st.imgs, hems1, st.fmap, "ValueError:type")

\* the calls _visit(v, path, k) for the entries of a dict, in its order
CallsFor(contents, path) ==
    [i \in DOMAIN contents |->
        [u |-> contents[i][2], path |-> path, key |-> contents[i][1]]]

\* the triples (category, hemisphere, name) a leaf asks for
TriplesOf(u) ==
    IF u.type = "image" THEN {<<"image", None, u.name>>}
    ELSE IF u.type \in {"surface", "registration", "property"}
    THEN {<<u.type, u.hemi.tags[i], u.name>> : i \in DOMAIN u.hemi.tags}
    ELSE {}

\* the triples the tables hold
TableTriples(im, hm) ==
    {<<"image", None, n>> : n \in DOMAIN im}
        \cup UNION {UNION {{<<"surface", h, n>> : n \in DOMAIN hm[h].surfaces},
                           {<<"registration", h, n>> : n \in DOMAIN hm[h].registrations},
                           {<<"property", h, n>> : n \in DOMAIN hm[h].properties}}
                    : h \in DOMAIN hm}

----------------------------------------------------------------------------
(* subject_directory_structure, cut down to one entry of each kind: an    *)
(* image, the atlas masks of the 32k mesh (with their caching loader), a  *)
(* registration sphere (with its caching loader) and a combined-          *)
(* hemisphere property.  A file name is the sequence of its '.'-separated *)
(* parts, "{id}" standing for the placeholder {0[id]}.                    *)

LhSulc == <<"lh", "LR32k", "MSMSulc">>

LhAll == <<"lh", "LR32k", "MSMAll">>

RhAll == <<"rh", "LR32k", "MSMAll">>

T1Key == <<"T1w_acpc_dc_restore", "nii", "gz">>

AtlasLKey == <<"{id}", "L", "atlasroi", "32k_fs_LR", "shape", "gii">>

AtlasRKey == <<"{id}", "R", "atlasroi", "32k_fs_LR", "shape", "gii">>

SphereKey == <<"{id}", "L", "sphere", "32k_fs_LR", "surf", "gii">>

CurvKey == <<"{id}", "curvature_MSMAll", "32k_fs_LR", "dscalar", "nii">>

subject_directory_structure ==
    << <<<<"T1w">>, Dir(<< <<T1Key, Leaf("image", "T1", NoHemi, None, None)>> >>)>>,
       <<<<"MNINonLinear">>,
         Dir(<< <<<<"fsaverage_LR32k">>,
                  Dir(<< <<AtlasLKey,
                           Alts(<<Leaf("property", "atlas", OneHemi(LhSulc),
                                       "_load_fsLR_atlasroi", "x[0].astype(bool)"),
                                  Leaf("property", "atlas", OneHemi(LhAll),
                                       "_load_fsLR_atlasroi", "x[0].astype(bool)")>>)>>,
                         <<AtlasRKey,
                           Leaf("property", "atlas", OneHemi(RhAll),
                                "_load_fsLR_atlasroi", "x[1].astype(bool)")>>,
                         <<SphereKey,
                           Leaf("registration", "fs_LR", OneHemi(LhSulc),
                                "_load_atlas_sphere", None)>>,
                         <<CurvKey,
                           Leaf("property", "curvature", HemiTuple(<<LhAll, RhAll>>),
                                None, "-c")>> >>)>> >>)>> >>

\* the walk of _organize_subject_directory_structure from a list of calls
RECURSIVE RunVisits(_, _)
RunVisits(st, calls) ==
    IF calls = <<>> \/ st.err # "none" THEN st
    ELSE LET c == Head(calls)
         IN  IF c.u.type = "tuple"
             THEN RunVisits(st, [i \in DOMAIN c.u.alts |->
                                    [u |-> c.u.alts[i], path |-> c.path, key |-> c.key]]
                                \o Tail(calls))
             ELSE IF c.u.type = "dir"
             THEN RunVisits(st, CallsFor(c.u.contents, PathJoin(c.path, c.key))
                                \o Tail(calls))
             ELSE RunVisits(VisitLeaf(st, c.u, c.path, c.key), Tail(calls))

organize_subject_directory_structure(tree) ==
    RunVisits(OrgState(EmptyDict, EmptyDict, EmptyDict, "none"), CallsFor(tree, <<>>))

subject_structure == organize_subject_directory_structure(subject_directory_structure)

CurvFile == <<<<"MNINonLinear">>, <<"fsaverage_LR32k">>, CurvKey>>

----------------------------------------------------------------------------
(* Arrays.  An array is [nd, v] with v the sequence of its rows, each a   *)
(* sequence of entries: nd = 2 is a matrix, nd = 1 a vector (rows of one  *)
(* entry), nd = 0 an array without dimensions (one row of one entry).     *)

Arr2(rows) == [nd |-> 2, v |-> rows]

Arr1(xs) == [nd |-> 1, v |-> [i \in DOMAIN xs |-> <<xs[i]>>]]

Arr0(x) == [nd |-> 0, v |-> << <<x>> >>]

\* a.shape[0] (of an array with nd > 0)
Shape0(a) == Len(a.v)

\* the number of entries of a row: a.shape[1] of a matrix
Shape1(a) == Len(a.v[1])

\* a.T
Transpose(a) ==
    IF a.nd = 2
    THEN Arr2([j \in 1 .. Shape1(a) |-> [i \in 1 .. Shape0(a) |-> a.v[i][j]]])
    ELSE a

\* np.squeeze(a): the dimensions of length one are dropped
Squeeze(a) ==
    IF a.nd = 2
    THEN IF Shape0(a) = 1 /\ Shape1(a) = 1 THEN [nd |-> 0, v |-> a.v]
         ELSE IF Shape0(a) = 1 THEN Arr1(a.v[1])
         ELSE IF Shape1(a) = 1 THEN [nd |-> 1, v |-> a.v]
         ELSE a
    ELSE IF a.nd = 1 /\ Shape0(a) = 1 THEN [nd |-> 0, v |-> a.v]
    ELSE a

\* np.where(aa)[0] of a vector: the positions of the entries that are not
\* zero, ascending
RECURSIVE WhereSeq(_)
WhereSeq(rows) ==
    IF rows = <<>> THEN <<>>
    ELSE LET front == WhereSeq(SubSeq(rows, 1, Len(rows) - 1))
         IN  IF Last(rows)[1] # 0 THEN Append(front, Len(rows)) ELSE front

Where(aa) == WhereSeq(aa.v)

\* np.zeros((nn,) + tmp.shape[1:]) followed by obj[jj] = tmp[ii], where ii
\* is the slice of len(jj) rows that starts after `skip` rows
Scatter(tmp, skip, jj, nn) ==
    LET zero == [j \in 1 .. Shape1(tmp) |-> 0]
    IN  [nd |-> tmp.nd,
         v |-> [r \in 1 .. nn |->
                   IF \E p \in DOMAIN jj : jj[p] = r
                   THEN tmp.v[skip + (CHOOSE p \in DOMAIN jj : jj[p] = r)]
                   ELSE zero]]

----------------------------------------------------------------------------
(* The split of a combined-hemisphere array (subject_filemap._lookup_fl)  *)

\* dat['hemi'][0:2] == 'lh': the first two characters of a tag are its
\* side; the slice of a tuple of tags is a tuple, which equals no string
HemiSliceIsLh(hemi) ==
    IF hemi.tuple THEN FALSE ELSE hemi.tags[1][1] = "lh"

Fail(e) == [err |-> e, v |-> None]

Ok(x) == [err |-> "none", v |-> x]

\* tmp.shape[0] < cu
TooShort(n, cu) == n < cu

\* an _f that gives the array as loaded
CiftiNoSplit(obj, hemi, la, ra) == Ok(obj)

\* the cifti branch of _f: obj is the loaded array, hemi is dat['hemi'] and
\* (la, ra) are the atlas masks of the file
CiftiSplit(obj, hemi, la, ra) ==
    LET ln == Shape0(la)
        rn == Shape0(ra)
        li == Where(la)
        ri == Where(ra)
        lu == Len(li)
        ru == Len(ri)
        isLh == HemiSliceIsLh(hemi)
        skip == IF isLh THEN 0 ELSE lu
        jj == IF isLh THEN li ELSE ri
        nn == IF isLh THEN ln ELSE rn
        cu == lu + ru
        tmp == IF TooShort(Shape0(obj), cu) THEN Transpose(obj) ELSE obj
    IN  IF la.nd = 0 \/ ra.nd = 0 \/ obj.nd = 0
        THEN \* shape[0] of an array without dimensions
             Fail("IndexError")
        ELSE IF TooShort(Shape0(tmp), cu) THEN Fail("ValueError:size")
        ELSE Ok(Scatter(tmp, skip, jj, nn))

----------------------------------------------------------------------------
(* The loaders (_data_load, _load, _load_atlas_sphere and                 *)
(* _load_fsLR_atlasroi).  An absolute path is a sequence of components, a *)
(* component the sequence of its '.'-separated parts.  The loaders read   *)
(* and write the local file system, the bucket and the process-wide       *)
(* caches; that state is passed through them as a record w, and each      *)
(* loader yields Out(w, res): the state it leaves and what it returns or  *)
(* raises.                                                                *)

\* the value of a file that is no array (an image, a mesh)
Obj(code) == [nd |-> -1, v |-> << <<code>> >>]

\* the pair of atlas masks _load_fsLR_atlasroi returns
Pair(la, ra) == [la |-> la, ra |-> ra]

IsPair(x) == "la" \in DOMAIN x

Out(w, res) == [w |-> w, res |-> res]

\* _auto_download_options = None
NoAutoDownload ==
    [enabled |-> FALSE, subjects_path |-> <<>>, overwrite |-> FALSE,
     release |-> None, database |-> None, subject_ids |-> {}]

\* the subjects of the model and the decimal strings of their ids
Subjects == {[id |-> 100307, str |-> "100307"], [id |-> 100408, str |-> "100408"]}

\* str(sid) and '%d' % sid
Str(sid) == (CHOOSE s \in Subjects : s.id = sid).str

\* k.format({'id': sid}) of a relative path
Format(rel, sid) ==
    [i \in DOMAIN rel |->
        [j \in DOMAIN rel[i] |->
            IF rel[i][j] = "{id}" THEN Str(sid) ELSE rel[i][j]]]

\* os.path.split(filename)[0]
Dirname(filename) == SubSeq(filename, 1, Len(filename) - 1)

\* os.makedirs(p): p and every directory above it
makedirs(dirs, p) == dirs \cup {SubSeq(p, 1, n) : n \in 1 .. Len(p)}

\* the name of the file without its directories
RelPathBase(filename, sid) == <<Last(filename)>>

\* filename.split(str(sid) + os.sep)[-1]: what follows the last directory
\* whose name ends in the subject id
RelPath(filename, sid) ==
    LET cuts == {i \in 1 .. (Len(filename) - 1) : Last(filename[i]) = Str(sid)}
    IN  IF cuts = {} THEN filename
        ELSE SubSeq(filename, (CHOOSE i \in cuts : \A j \in cuts : j <= i) + 1,
                    Len(filename))

\* '/'.join([db, rl, str(sid)]) followed by a relative path: a key of the
\* bucket
BucketKey(db, rl, sid, rel) == [db |-> db, rl |-> rl, sid |-> sid, path |-> rel]

\* fs.exists(hcp_sdir): some object of the bucket lies under the prefix
BucketHasSubject(db, rl, sid) ==
    \E k \in DOMAIN bucket : k.db = db /\ k.rl = rl /\ k.sid = sid

\* _auto_downloadable(sid), for an id that to_subject_id accepts
_auto_downloadable(sid) ==
    /\ auto_download_options.enabled
    /\ to_subject_id(IntArg(sid)).v \in auto_download_options.subject_ids

\* d.get(k, 0)
Count(d, k) == IF Has(d, k) THEN d[k] ELSE 0

\* a fetch that does not ask whether the subject id is enumerated
FetchForUnlisted(w, filename, data, coerced) ==
    LET sid == data.id
        opts == auto_download_options
        key == BucketKey(opts.database, opts.release, sid, RelPath(filename, sid))
        basedir == Dirname(filename)
        w1 == [w EXCEPT !.checks = @ + 1]
        w2 == [w1 EXCEPT !.dirs = IF basedir \in @ THEN @ ELSE makedirs(@, basedir),
                         !.keysLoad = Put(@, filename, key)]
        w3 == [w2 EXCEPT !.files = Put(@, filename, bucket[key]),
                         !.gets = Put(@, filename, Count(@, filename) + 1)]
    IN  IF ~opts.enabled THEN Out(w, Fail("ValueError:File not found"))
        ELSE IF coerced.err # "none" THEN Out(w, Fail(coerced.err))
        ELSE IF ~BucketHasSubject(opts.database, opts.release, sid)
        THEN Out(w1, Fail("ValueError:Subject not found in release"))
        ELSE IF key \notin DOMAIN bucket
        THEN Out(w2, Fail("IOError"))
        ELSE Out(w3, Ok(Obj(0)))

\* a fetch that makes the directory of the file before it asks the bucket
\* for the subject
FetchForEager(w, filename, data, coerced) ==
    LET sid == data.id
        opts == auto_download_options
        key == BucketKey(opts.database, opts.release, sid, RelPath(filename, sid))
        basedir == Dirname(filename)
        w1 == [w EXCEPT !.checks = @ + 1,
                        !.dirs = IF basedir \in @ THEN @ ELSE makedirs(@, basedir)]
        w2 == [w1 EXCEPT !.keysLoad = Put(@, filename, key)]
        w3 == [w2 EXCEPT !.files = Put(@, filename, bucket[key]),
                         !.gets = Put(@, filename, Count(@, filename) + 1)]
    IN  IF ~opts.enabled THEN Out(w, Fail("ValueError:File not found"))
        ELSE IF coerced.err # "none" THEN Out(w, Fail(coerced.err))
        ELSE IF coerced.v \notin opts.subject_ids
        THEN Out(w, Fail("ValueError:File not found"))
        ELSE IF ~BucketHasSubject(opts.database, opts.release, sid)
        THEN Out(w1, Fail("ValueError:Subject not found in release"))
        ELSE IF key \notin DOMAIN bucket
        THEN Out(w2, Fail("IOError"))
        ELSE Out(w3, Ok(Obj(0)))

\* the part of _data_load that runs when the file is not there; coerced
\* is to_subject_id(sid), which _auto_downloadable calls
FetchFor(w, filename, data, coerced) ==
    LET sid == data.id
        opts == auto_download_options
        key == BucketKey(opts.database, opts.release, sid, RelPath(filename, sid))
        basedir == Dirname(filename)
        w1 == [w EXCEPT !.checks = @ + 1]
        w2 == [w1 EXCEPT !.dirs = IF basedir \in @ THEN @ ELSE makedirs(@, basedir),
                         !.keysLoad = Put(@, filename, key)]
        w3 == [w2 EXCEPT !.files = Put(@, filename, bucket[key]),
                         !.gets = Put(@, filename, Count(@, filename) + 1)]
    IN  IF ~opts.enabled THEN Out(w, Fail("ValueError:File not found"))
        ELSE IF coerced.err # "none" THEN Out(w, Fail(coerced.err))
        ELSE IF coerced.v \notin opts.subject_ids
        THEN Out(w, Fail("ValueError:File not found"))
        ELSE IF ~BucketHasSubject(opts.database, opts.release, sid)
        THEN Out(w1, Fail("ValueError:Subject not found in release"))
        ELSE IF key \notin DOMAIN bucket
        THEN \* fs.get of an object the bucket does not hold
             Out(w2, Fail("IOError"))
        ELSE Out(w3, Ok(Obj(0)))

Fetch(w, filename, data) == FetchFor(w, filename, data, to_subject_id(IntArg(data.id)))

\* what _data_load reads out of a file whose content is `content`: the
\* data of a cifti file and of a property file (of a gifti file, its
\* first data array) squeezed, and the loaded object otherwise
Decode(content, filename, data) ==
    IF data.hasCifti /\ data.cifti THEN Ok(Squeeze(content))
    ELSE IF data.type \in {"surface", "registration"} THEN Ok(content)
    ELSE IF data.type = "property" THEN Ok(Squeeze(content))
    ELSE IF data.type = "image" THEN Ok(content)
    ELSE Fail("ValueError:unrecognized data type")

\* the reading of the file, once it is there (f is what the fetch left)
DecodeFetched(f, filename, data) ==
    IF f.res.err # "none" THEN f
    ELSE IF Decode(f.w.files[filename], filename, data).err # "none"
    THEN Out(f.w, Decode(f.w.files[filename], filename, data))
    ELSE Out([f.w EXCEPT !.decs = Put(@, filename, Count(@, filename) + 1)],
             Decode(f.w.files[filename], filename, data))

\* a load that copies the file from the bucket whenever automatic download
\* is on, whether or not the file is there
_data_load_refetch(w, filename, data) ==
    DecodeFetched(IF Has(w.files, filename) /\ ~auto_download_options.enabled
                  THEN Out(w, Ok(Obj(0)))
                  ELSE Fetch(w, filename, data),
                  filename, data)

_data_load(w, filename, data) ==
    DecodeFetched(IF Has(w.files, filename) THEN Out(w, Ok(Obj(0)))
                  ELSE Fetch(w, filename, data),
                  filename, data)

\* x[i] of a pair or of an array (i counted from 1)
Item(x, i) ==
    IF IsPair(x) THEN Ok(IF i = 1 THEN x.la ELSE x.ra)
    ELSE IF x.nd = 2 /\ i <= Shape0(x) THEN Ok(Arr1(x.v[i]))
    ELSE IF x.nd = 1 /\ i <= Shape0(x) THEN Ok(Arr0(x.v[i][1]))
    ELSE Fail("IndexError")

\* a.astype(bool): True (1) where the entry is not zero
AsBool(a) ==
    [nd |-> a.nd,
     v |-> [i \in DOMAIN a.v |->
              [j \in DOMAIN a.v[i] |-> IF a.v[i][j] # 0 THEN 1 ELSE 0]]]

\* -c
Negate(a) ==
    [nd |-> a.nd, v |-> [i \in DOMAIN a.v |-> [j \in DOMAIN a.v[i] |-> 0 - a.v[i][j]]]]

\* data['filt'](res) for the filters of the structure
ApplyFilt(filt, x) ==
    IF filt = None THEN Ok(x)
    ELSE IF filt = "-c"
    THEN IF IsPair(x) \/ x.nd < 0 THEN Fail("TypeError") ELSE Ok(Negate(x))
    ELSE LET it == Item(x, IF filt = "x[0].astype(bool)" THEN 1 ELSE 2)
         IN  IF it.err # "none" THEN it ELSE Ok(AsBool(it.v))

\* pimms.merge(v, {'id': sid}) of an entry of the file map
Merge(v, sid) ==
    [id |-> sid, type |-> v.type, hemi |-> v.hemi, load |-> v.load, filt |-> v.filt,
     hasCifti |-> v.hasCifti, cifti |-> v.cifti]

\* {'id': ..., 'type': 'property', 'name': 'atlas', 'hemi': h}
AtlasDat(sid, h) ==
    [id |-> sid, type |-> "property", hemi |-> OneHemi(h), load |-> None,
     filt |-> None, hasCifti |-> FALSE, cifti |-> FALSE]

\* h.lower() + 'h' of the hemisphere letter of a sphere file
SphereHemi(letter) ==
    CASE letter \in {"L", "l"} -> "lh"
      [] letter \in {"R", "r"} -> "rh"
      [] OTHER -> None

RECURSIVE _load(_, _, _)

\* cache[addr] = r, for r what _load gave
SphereKeep(r, h, addr) ==
    IF r.res.err # "none" THEN r
    ELSE Out([r.w EXCEPT !.sph[h] = Put(@, addr, r.res.v)], r.res)

_load_atlas_sphere(w, filename, data) ==
    LET parts == Last(filename)
        h == SphereHemi(parts[2])
        addr == <<parts[4], parts[3]>>
    IN  IF Len(parts) # 6 THEN Out(w, Fail("ValueError:unpack"))
        ELSE IF parts[5] # "surf" THEN Out(w, Fail("ValueError:bad filename"))
        ELSE IF h = None THEN Out(w, Fail("KeyError"))
        ELSE IF Has(w.sph[h], addr) THEN Out(w, Ok(w.sph[h][addr]))
        ELSE SphereKeep(_load(w, filename, [data EXCEPT !.load = None]), h, addr)

\* a cache that keeps the masks of the native mesh too
CachesAtlasAlways(atl) == TRUE

\* atl != 'native'
CachesAtlas(atl) == atl # "native"

\* the cache entry of the two masks loaded (rL, rR are what _load gave)
RoisKeep(rL, rR, atl) ==
    IF rR.res.err # "none" THEN rR
    ELSE IF CachesAtlas(atl)
    THEN Out([rR.w EXCEPT !.roi = Put(@, atl, Pair(rL.res.v, rR.res.v)),
                          !.rois = Put(@, atl, Count(@, atl) + 1)],
             Ok(Pair(rL.res.v, rR.res.v)))
    ELSE Out([rR.w EXCEPT !.rois = Put(@, atl, Count(@, atl) + 1)],
             Ok(Pair(rL.res.v, rR.res.v)))

\* the load of the right mask after the left one
RoisRight(rL, fnmR, datR, atl) ==
    IF rL.res.err # "none" THEN rL
    ELSE RoisKeep(rL, _load(rL.w, fnmR, datR), atl)

\* a loader of the masks that does not look in its cache
_load_fsLR_atlasroi_afresh(w, filename, data) ==
    LET fdir == Dirname(filename)
        fparts == Last(filename)
        atl == fparts[Len(fparts) - 2]
        sid == data.id
        fnm == [h \in {"L", "R"} |->
                   Append(fdir, <<Str(sid), h, "atlasroi", atl, "shape", "gii">>)]
        tag == data.hemi.tags
        datL == IF data.cifti THEN AtlasDat(sid, tag[1])
                ELSE AtlasDat(sid, <<"lh">> \o Tail(tag[1]))
        datR == IF data.cifti THEN AtlasDat(sid, tag[2])
                ELSE AtlasDat(sid, <<"rh">> \o Tail(tag[1]))
    IN  IF Len(fparts) < 3 THEN Out(w, Fail("IndexError"))
        ELSE IF ~data.hasCifti THEN Out(w, Fail("KeyError"))
        ELSE RoisRight(_load(w, fnm["L"], datL), fnm["R"], datR, atl)

_load_fsLR_atlasroi(w, filename, data) ==
    LET fdir == Dirname(filename)
        fparts == Last(filename)
        atl == fparts[Len(fparts) - 2]
        sid == data.id
        fnm == [h \in {"L", "R"} |->
                   Append(fdir, <<Str(sid), h, "atlasroi", atl, "shape", "gii">>)]
        tag == data.hemi.tags
        datL == IF data.cifti THEN AtlasDat(sid, tag[1])
                ELSE AtlasDat(sid, <<"lh">> \o Tail(tag[1]))
        datR == IF data.cifti THEN AtlasDat(sid, tag[2])
                ELSE AtlasDat(sid, <<"rh">> \o Tail(tag[1]))
    IN  IF Len(fparts) < 3 THEN Out(w, Fail("IndexError"))
        ELSE IF Has(w.roi, atl) THEN Out(w, Ok(w.roi[atl]))
        ELSE IF ~data.hasCifti THEN Out(w, Fail("KeyError"))
        ELSE RoisRight(_load(w, fnm["L"], datL), fnm["R"], datR, atl)

\* a filter step that runs the filter on its own result again
FilteredTwice(r, data) ==
    IF r.res.err # "none" THEN r
    ELSE IF ApplyFilt(data.filt, r.res.v).err # "none"
    THEN Out(r.w, ApplyFilt(data.filt, r.res.v))
    ELSE Out(r.w, ApplyFilt(data.filt, ApplyFilt(data.filt, r.res.v).v))

\* the filter step of _load, on what the loader gave
Filtered(r, data) ==
    IF r.res.err # "none" THEN r
    ELSE Out(r.w, ApplyFilt(data.filt, r.res.v))

\* _load; the freezing of the result (setflags, persist) changes no value
_load(w, filename, data) ==
    Filtered(IF data.load = "_load_fsLR_atlasroi"
             THEN _load_fsLR_atlasroi(w, filename, data)
             ELSE IF data.load = "_load_atlas_sphere"
             THEN _load_atlas_sphere(w, filename, data)
             ELSE _data_load(w, filename, data),
             data)

\* what a run of the lambda of a file gave, r, seen from the lazy map
Ran(r, fls) == [w |-> r.w, fls |-> fls, res |-> r.res, ran |-> TRUE, loaded |-> r.res.err]

\* a map of the files that keeps no value
FlsNoMemo(w, fls, flnm, dat) == Ran(_load(w, flnm, dat), fls)

\* a map of the files that runs the lambda and forgets its value
FlsForget(o, flnm) == o

\* the value is kept if the lambda returned
FlsKeep(o, flnm) ==
    IF o.res.err = "none" THEN [o EXCEPT !.fls = Put(@, flnm, o.res.v)] ELSE o

\* fls[flnm] of the lazy map of subject_filemap: the lambda of the file is
\* run if no value of it is kept
FlsGet(w, fls, flnm, dat) ==
    IF Has(fls, flnm)
    THEN [w |-> w, fls |-> fls, res |-> Ok(fls[flnm]), ran |-> FALSE, loaded |-> "none"]
    ELSE FlsKeep(Ran(_load(w, flnm, dat), fls), flnm)

\* the split of the array o holds by the masks a holds
SplitBy(o, a, dat) ==
    IF a.res.err # "none" THEN [o EXCEPT !.w = a.w, !.res = a.res]
    ELSE [o EXCEPT !.w = a.w,
                   !.res = CiftiSplit(o.res.v, dat.hemi, a.res.v.la, a.res.v.ra)]

\* what _f does with obj = fls[flnm]
AfterFls(o, flnm, dat) ==
    IF o.res.err # "none" THEN o
    ELSE IF dat.hasCifti /\ dat.cifti
    THEN SplitBy(o, _load_fsLR_atlasroi(o.w, flnm, dat), dat)
    ELSE o

\* _f of _lookup_fl(flnm)
lookup_f(w, fls, flnm, dat) == AfterFls(FlsGet(w, fls, flnm, dat), flnm, dat)

\* a map of the files that runs the lambda of one file when it is built
EagerRan(r, f) == [w |-> r.w, fls |-> EmptyDict, ran |-> {f}, res |-> r.res]

lazy_map_eager(w, sdir, sid) ==
    LET k == CHOOSE f \in DOMAIN subject_structure.fmap : TRUE
    IN  EagerRan(_load(w, sdir \o Format(k, sid), Merge(subject_structure.fmap[k], sid)),
                 sdir \o Format(k, sid))

\* pimms.lazy_map(fls) as subject_filemap builds it: no lambda is run
lazy_map(w, sdir, sid) ==
    [w |-> w, fls |-> EmptyDict, ran |-> {}, res |-> Ok(Obj(0))]


\* the state the loaders work on
World ==
    [files |-> fsFiles, dirs |-> fsDirs, roi |-> roiAtlases, sph |-> sphereAtlases,
     gets |-> fetches, checks |-> remoteChecks, decs |-> decodes, rois |-> roiLoads,
     keysLoad |-> fetchedFrom, keysPull |-> pulledFrom]

\* no path (None)
NoPath == <<>>

\* the working directory, for os.path.abspath
Cwd == << <<"cwd">> >>

\* the least of a set of numbers
Min(S) == CHOOSE i \in S : \A j \in S : i <= j

\* a search that makes the directory whether or not the subject can be
\* downloaded
find_subject_path_eager(dirs, sid) ==
    LET sub == << <<Str(sid)>> >>
        hits == {i \in DOMAIN subjects_dirs : (subjects_dirs[i] \o sub) \in dirs}
        pth == auto_download_options.subjects_path \o sub
    IN  IF sub \in dirs THEN [dirs |-> dirs, path |-> Cwd \o sub]
        ELSE IF hits # {} THEN [dirs |-> dirs, path |-> subjects_dirs[Min(hits)] \o sub]
        ELSE IF pth \in dirs THEN [dirs |-> dirs, path |-> pth]
        ELSE [dirs |-> makedirs(dirs, pth), path |-> pth]

find_subject_path(dirs, sid) ==
    LET sub == << <<Str(sid)>> >>
        hits == {i \in DOMAIN subjects_dirs : (subjects_dirs[i] \o sub) \in dirs}
        pth == auto_download_options.subjects_path \o sub
    IN  IF sub \in dirs THEN [dirs |-> dirs, path |-> Cwd \o sub]
        ELSE IF hits # {} THEN [dirs |-> dirs, path |-> subjects_dirs[Min(hits)] \o sub]
        ELSE IF ~auto_download_options.enabled \/ ~_auto_downloadable(sid)
        THEN [dirs |-> dirs, path |-> NoPath]
        ELSE IF pth \in dirs THEN [dirs |-> dirs, path |-> pth]
        ELSE [dirs |-> makedirs(dirs, pth), path |-> pth]

\* no SubjectAccess built
NoSubject ==
    [status |-> "none", err |-> "none", id |-> 0, sdir |-> NoPath, fls |-> EmptyDict,
     leaves |-> EmptyDict]

\* the SubjectAccess over the lazy map m
Built(m, sid, sdir) ==
    IF m.res.err # "none"
    THEN [w |-> m.w, ran |-> m.ran,
          sa |-> [NoSubject EXCEPT !.status = "failed", !.err = m.res.err, !.id = sid]]
    ELSE [w |-> m.w, ran |-> m.ran,
          sa |-> [status |-> "built", err |-> "none", id |-> sid, sdir |-> sdir,
                  fls |-> m.fls, leaves |-> EmptyDict]]

\* subject_filemap once the directory was looked for: found.path is sdir
FilemapAt(w, sid, found) ==
    LET pth == auto_download_options.subjects_path \o << <<Str(sid)>> >>
    IN  IF found.path # NoPath
        THEN Built(lazy_map([w EXCEPT !.dirs = found.dirs], found.path, sid),
                   sid, found.path)
        ELSE IF auto_download_options.enabled /\ _auto_downloadable(sid)
        THEN Built(lazy_map([w EXCEPT !.dirs = IF pth \in found.dirs THEN found.dirs
                                              ELSE makedirs(found.dirs, pth)],
                            pth, sid),
                   sid, pth)
        ELSE [w |-> [w EXCEPT !.dirs = found.dirs], ran |-> {},
              sa |-> [NoSubject EXCEPT !.status = "failed", !.id = sid,
                                       !.err = "ValueError:Could not find HCP subject"]]

\* subject_filemap(sid, subject_path) for an integer sid: the directory of
\* the subject is settled and the lazy maps are built over the file map
subject_filemap(w, sid, subject_path) ==
    FilemapAt(w, sid,
              IF subject_path = NoPath THEN find_subject_path(w.dirs, sid)
              ELSE [dirs |-> w.dirs, path |-> subject_path \o << <<Str(sid)>> >>])

\* an option that counts as False whatever it is
NeverTruthy(x) == FALSE

\* bool(x) of a value of the overwrite option: False, True or 'error'
Truthy(x) == x # "False"

\* the state after fs.get(hcp_flnm, loc_flnm) and pulled.append(loc_flnm)
Got(p, loc, key) ==
    [w |-> [p.w EXCEPT !.dirs = IF Dirname(loc) \in @ THEN @ ELSE makedirs(@, Dirname(loc)),
                       !.files = Put(@, loc, bucket[key]),
                       !.gets = Put(@, loc, Count(@, loc) + 1),
                       !.keysPull = Put(@, loc, key)],
     pulled |-> Append(p.pulled, loc)]

RECURSIVE Pull(_, _, _)

\* the body of the loop of download for one key of the file map
PullOne(c, todo, p, loc, key) ==
    IF ~Truthy(c.overwrite) /\ Has(p.w.files, loc) THEN Pull(c, Tail(todo), p)
    ELSE IF key \notin DOMAIN bucket
    THEN \* fs.get of an object the bucket does not hold
         Out([p.w EXCEPT !.dirs = IF Dirname(loc) \in @ THEN @
                                  ELSE makedirs(@, Dirname(loc)),
                         !.keysPull = Put(@, loc, key)],
             Fail("IOError"))
    ELSE Pull(c, Tail(todo), Got(p, loc, key))

\* a loop that goes on to the next key when a copy fails
PullSkipping(c, todo, p) ==
    IF todo = <<>> THEN Out(p.w, [err |-> "none", v |-> p.pulled])
    ELSE IF BucketKey(c.database, c.release, c.sid, Format(Head(todo), c.sid))
               \notin DOMAIN bucket
    THEN Pull(c, Tail(todo), p)
    ELSE PullOne(c, todo, p, c.loc_sdir \o Format(Head(todo), c.sid),
                 BucketKey(c.database, c.release, c.sid, Format(Head(todo), c.sid)))

\* the loop of download over the keys todo of the file map; p holds the
\* state and the list pulled
Pull(c, todo, p) ==
    IF todo = <<>> THEN Out(p.w, [err |-> "none", v |-> p.pulled])
    ELSE PullOne(c, todo, p, c.loc_sdir \o Format(Head(todo), c.sid),
                 BucketKey(c.database, c.release, c.sid, Format(Head(todo), c.sid)))

\* a download that makes the directory of the subject before it asks the
\* bucket for the subject
DownloadToEager(w, coerced, subjects_path, overwrite, release, database, order) ==
    IF \A k \in DOMAIN bucket : k.db # database \/ k.rl # release
    THEN Out(w, Fail("ValueError:database/release not found"))
    ELSE IF coerced.err # "none" THEN Out(w, Fail(coerced.err))
    ELSE IF ~BucketHasSubject(database, release, coerced.v)
    THEN Out([w EXCEPT !.dirs = makedirs(@, subjects_path \o << <<Str(coerced.v)>> >>)],
             Fail("ValueError:Subject not found in release"))
    ELSE Pull([sid |-> coerced.v, loc_sdir |-> subjects_path \o << <<Str(coerced.v)>> >>,
               overwrite |-> overwrite, release |-> release, database |-> database],
              order, [w |-> w, pulled |-> <<>>])

\* download once subjects_path is settled; coerced is to_subject_id(sid)
DownloadTo(w, coerced, subjects_path, overwrite, release, database, order) ==
    IF \A k \in DOMAIN bucket : k.db # database \/ k.rl # release
    THEN Out(w, Fail("ValueError:database/release not found"))
    ELSE IF coerced.err # "none" THEN Out(w, Fail(coerced.err))
    ELSE IF ~BucketHasSubject(database, release, coerced.v)
    THEN Out(w, Fail("ValueError:Subject not found in release"))
    ELSE Pull([sid |-> coerced.v, loc_sdir |-> subjects_path \o << <<Str(coerced.v)>> >>,
               overwrite |-> overwrite, release |-> release, database |-> database],
              order, [w |-> w, pulled |-> <<>>])

\* download(sid, subjects_path=..., overwrite=..., release=..., database=...)
\* where s3fs and the credentials are there; order is the order in which
\* the dict subject_structure['filemap'] yields its keys
download(w, sid, subjects_path, overwrite, release, database, order) ==
    LET found == {i \in DOMAIN subjects_dirs : subjects_dirs[i] \in w.dirs}
    IN  IF subjects_path = NoPath /\ found = {}
        THEN Out(w, Fail("ValueError:No subjects path given or found"))
        ELSE DownloadTo(w, to_subject_id(IntArg(sid)),
                        IF subjects_path = NoPath THEN subjects_dirs[Min(found)]
                        ELSE subjects_path,
                        overwrite, release, database, order)

\* the leaves of a SubjectAccess: sa['images'][name] and
\* sa['hemis'][h][cat][name]
SaLeaves ==
    {[cat |-> "images", h |-> <<>>, name |-> n] : n \in DOMAIN subject_structure.imgs}
        \cup UNION {UNION {{[cat |-> c, h |-> h, name |-> n]
                              : n \in DOMAIN subject_structure.hems[h][c]}
                           : c \in {"surfaces", "registrations", "properties"}}
                    : h \in DOMAIN subject_structure.hems}

\* the key of the file map a leaf is registered under
LeafFile(l) ==
    IF l.cat = "images" THEN subject_structure.imgs[l.name]
    ELSE subject_structure.hems[l.h][l.cat][l.name]

\* os.path.join(sdir, fl.format(ff))
LeafPath(s, l) == s.sdir \o Format(LeafFile(l), s.id)

\* a map of leaves that forgets every value it keeps when _f raises
LeafDropOnFailure(s, l, r) ==
    [w |-> r.w,
     sa |-> [s EXCEPT !.fls = IF r.res.err = "none" THEN r.fls ELSE EmptyDict,
                      !.leaves = IF r.res.err = "none" THEN Put(@, l, r.res.v)
                                 ELSE EmptyDict],
     res |-> r.res, ran |-> r.ran, loaded |-> r.loaded]

\* the value of a leaf is kept if _f returned (r is what _f gave)
LeafKeep(s, l, r) ==
    [w |-> r.w,
     sa |-> [s EXCEPT !.fls = r.fls,
                      !.leaves = IF r.res.err = "none" THEN Put(@, l, r.res.v) ELSE @],
     res |-> r.res, ran |-> r.ran, loaded |-> r.loaded]

\* sa[...][name] of a lazy map of leaves: _f is run if no value of the
\* leaf is kept
LeafGet(w, s, l) ==
    IF Has(s.leaves, l)
    THEN [w |-> w, sa |-> s, res |-> Ok(s.leaves[l]), ran |-> FALSE, loaded |-> "none"]
    ELSE LeafKeep(s, l, lookup_f(w, s.fls, LeafPath(s, l),
                                 Merge(subject_structure.fmap[LeafFile(l)], s.id)))

----------------------------------------------------------------------------
(* Each part of the program is checked as a state machine of its own; the *)
(* state of the parts that take no step is held at these values.          *)

SidIdle ==
    /\ fsDirs = {}
    /\ sidArg = OtherArg
    /\ sidResult = Idle

SplIdle ==
    /\ splObj = Arr0(0)
    /\ splLa = Arr0(0)
    /\ splRa = Arr0(0)
    /\ splTag = <<>>
    /\ splOut = Fail("idle")
    /\ splOutT = Fail("idle")

\* no call made on the search paths
NoPathCall ==
    [op |-> "none", arg |-> OtherArg, path |-> <<>>, index |-> [given |-> FALSE, k |-> 0]]

PthNoOut == [err |-> "idle", none |-> FALSE, ok |-> FALSE, v |-> <<>>]

PthIdle ==
    /\ pthCall = NoPathCall
    /\ pthOut = PthNoOut
    /\ pthCalls = 0

\* auto_download was not called
NoAutoCall ==
    [status |-> FALSE, subjects_path |-> <<>>, overwrite |-> FALSE, release |-> "none",
     database |-> "none"]

AutoIdle ==
    /\ autoArgs = NoAutoCall
    /\ autoOut = "idle"
    /\ autoCalls = 0

\* an argument of to_credentials that is no string, mapping or sequence
NoCredArg ==
    [t |-> "other", s |-> <<>>, keys |-> {}, key |-> <<>>, secret |-> <<>>, items |-> <<>>]

CredNoOut == [err |-> "idle", v |-> <<>>]

\* to_credentials was not called; s3fs is loaded
CredIdle ==
    /\ credArg = NoCredArg
    /\ credDisk = <<>>
    /\ credOut = CredNoOut
    /\ s3fs = TRUE

\* no callers run at once
NoThreads == threads = <<>>

\* download was not called
NoCall == [sid |-> 0, subjects_path |-> <<>>, overwrite |-> "none"]

DlIdle ==
    /\ fetchedFrom = EmptyDict
    /\ pulledFrom = EmptyDict
    /\ dlOrder = <<>>
    /\ dlArgs = NoCall
    /\ dlOut = Fail("idle")
    /\ dlBefore = EmptyDict
    /\ dlCalls = 0
    /\ dlLoads = 0

SaIdle ==
    /\ fsFiles = EmptyDict
    /\ bucket = EmptyDict
    /\ auto_download_options = NoAutoDownload
    /\ subjects_dirs = <<>>
    /\ roiAtlases = EmptyDict
    /\ sphereAtlases = [lh |-> EmptyDict, rh |-> EmptyDict]
    /\ sa = NoSubject
    /\ loadCalls = EmptyDict
    /\ fetches = EmptyDict
    /\ remoteChecks = 0
    /\ reads = EmptyDict
    /\ accesses = 0
    /\ decodes = EmptyDict
    /\ roiLoads = EmptyDict
    /\ opens = 0
    /\ pathArg = NoPath
    /\ maskOut = Fail("idle")
    /\ PthIdle
    /\ AutoIdle
    /\ CredIdle
    /\ NoThreads
    /\ DlIdle

OrgIdle ==
    /\ ss = <<>>
    /\ orgStack = <<>>
    /\ imgs = EmptyDict
    /\ hems = EmptyDict
    /\ fmap = EmptyDict
    /\ orgStatus = "idle"
    /\ orgVisited = <<>>

----------------------------------------------------------------------------
(* The normaliser as a state machine over a family of small structures:   *)
(*   { a: X, d: { b: Y } }                                                *)
(* where X is a leaf or a tuple of up to MaxAlts leaves and Y is a leaf.  *)

MaxAlts == 2

OrgNames == {"white", "pial"}

OrgTags == {OneHemi(<<"lh">>), OneHemi(<<"rh">>), HemiTuple(<< <<"lh">>, <<"rh">> >>)}

\* the leaves tried: every category, with one tag or a tuple of tags, and
\* two malformed ones (an unknown type, a surface with no 'hemi')
OrgLeaves ==
    {Leaf("image", n, NoHemi, None, None) : n \in OrgNames}
        \cup {Leaf(ty, n, h, None, None) :
                ty \in {"surface", "property"}, n \in OrgNames, h \in OrgTags}
        \cup {Leaf("registration", "white", h, None, None) : h \in OrgTags}
        \cup {Leaf("volume", "white", OneHemi(<<"lh">>), None, None),
              Leaf("surface", "white", NoHemi, None, None)}

OrgAlts == UNION {[1 .. k -> OrgLeaves] : k \in 2 .. MaxAlts}

OrgStructures ==
    {<< <<<<"a">>, x>>, <<<<"d">>, Dir(<< <<<<"b">>, y>> >>)>> >> :
        x \in OrgLeaves \cup {Alts(us) : us \in OrgAlts}, y \in OrgLeaves}

OrgInit ==
    /\ ss \in OrgStructures
    /\ orgStack = CallsFor(ss, <<>>)
    /\ imgs = EmptyDict
    /\ hems = EmptyDict
    /\ fmap = EmptyDict
    /\ orgStatus = "running"
    /\ orgVisited = <<>>
    /\ SidIdle
    /\ SplIdle
    /\ SaIdle

\* _visit on a tuple or list: _visit on each member, same path and key
VisitTuple ==
    /\ orgStatus = "running" /\ orgStack # <<>>
    /\ Head(orgStack).u.type = "tuple"
    /\ LET c == Head(orgStack)
       IN  orgStack' = [i \in DOMAIN c.u.alts |->
                            [u |-> c.u.alts[i], path |-> c.path, key |-> c.key]]
                       \o Tail(orgStack)
    /\ UNCHANGED <<ss, imgs, hems, fmap, orgStatus, orgVisited, sidVars, splVars, saVars>>

\* _visit on a directory: _visit on each entry under the new path
VisitDir ==
    /\ orgStatus = "running" /\ orgStack # <<>>
    /\ Head(orgStack).u.type = "dir"
    /\ LET c == Head(orgStack)
       IN  orgStack' = CallsFor(c.u.contents, PathJoin(c.path, c.key)) \o Tail(orgStack)
    /\ UNCHANGED <<ss, imgs, hems, fmap, orgStatus, orgVisited, sidVars, splVars, saVars>>

\* _visit on a leaf: the tables gain its entries, or the error ends the run
VisitLeafStep ==
    /\ orgStatus = "running" /\ orgStack # <<>>
    /\ Head(orgStack).u.type \notin {"tuple", "dir"}
    /\ LET c == Head(orgStack)
           r == VisitLeaf(OrgState(imgs, hems, fmap, "none"), c.u, c.path, c.key)
       IN  /\ imgs' = r.imgs
           /\ hems' = r.hems
           /\ fmap' = r.fmap
           /\ orgStatus' = IF r.err = "none" THEN "running" ELSE r.err
           /\ orgStack' = Tail(orgStack)
           /\ orgVisited' = Append(orgVisited, [u |-> c.u, flnm |-> PathJoin(c.path, c.key)])
    /\ UNCHANGED <<ss, sidVars, splVars, saVars>>

\* every entry visited: the tables are returned
OrgReturn ==
    /\ orgStatus = "running" /\ orgStack = <<>>
    /\ orgStatus' = "returned"
    /\ UNCHANGED <<ss, orgStack, imgs, hems, fmap, orgVisited, sidVars, splVars, saVars>>

OrgNext == VisitTuple \/ VisitDir \/ VisitLeafStep \/ OrgReturn

SpecOrg == OrgInit /\ [][OrgNext]_vars

----------------------------------------------------------------------------
(* The split as a state machine: one combined-hemisphere property of the  *)
(* structure, read under one of its two tags, over arrays and masks of    *)
(* every small shape.  The entry in row i and column j is 10 * i + j, so  *)
(* that a value shows where it came from.                                 *)

MaxDim == 4

MaxMask == 2

SplMatrices ==
    {Arr2([i \in 1 .. r |-> [j \in 1 .. c |-> 10 * i + j]]) : r \in 1 .. MaxDim, c \in 1 .. MaxDim}

SplVectors == {Arr1([i \in 1 .. n |-> 10 * i]) : n \in 1 .. MaxDim}

SplMasks == UNION {{Arr1(m) : m \in [1 .. n -> {0, 1}]} : n \in 1 .. MaxMask}

\* the value of hems[tag]['properties'][name] as _lookup_fl(fnm)._f
\* computes it from the loaded array: dat is dats[flnm], whatever the tag
LookupCifti(tag, name, obj, la, ra) ==
    LET flnm == subject_structure.hems[tag].properties[name]
        dat == subject_structure.fmap[flnm]
    IN  IF dat.hasCifti /\ dat.cifti
        THEN CiftiSplit(obj, dat.hemi, la, ra)
        ELSE Ok(obj)

SplInit ==
    /\ splObj \in SplMatrices \cup SplVectors
    /\ splLa \in SplMasks
    /\ splRa \in SplMasks
    /\ splTag \in {LhAll, RhAll}
    /\ splOut = Fail("idle")
    /\ splOutT = Fail("idle")
    /\ SidIdle
    /\ OrgIdle
    /\ SaIdle

SplitGiven ==
    /\ splOut = Fail("idle")
    /\ splOut' = LookupCifti(splTag, "curvature", splObj, splLa, splRa)
    /\ UNCHANGED <<splObj, splLa, splRa, splTag, splOutT, sidVars, orgVars, saVars>>

SplitTransposed ==
    /\ splOutT = Fail("idle")
    /\ splOutT' = LookupCifti(splTag, "curvature", Transpose(splObj), splLa, splRa)
    /\ UNCHANGED <<splObj, splLa, splRa, splTag, splOut, sidVars, orgVars, saVars>>

SplNext == SplitGiven \/ SplitTransposed

SpecSplit == SplInit /\ [][SplNext]_vars

----------------------------------------------------------------------------
(* Claims about the split *)

\* N_left + N_right: the number of packed rows
PackedRows == Len(Where(splLa)) + Len(Where(splRa))

\* out has the length of mask; its rows at the mask's true positions are,
\* in order, the rows of src after the first skip rows; the others are zero
IsScatterOf(out, mask, src, skip) ==
    /\ out.nd = 2
    /\ Shape0(out) = Shape0(mask)
    /\ \A r \in 1 .. Shape0(out) :
          /\ Len(out.v[r]) = Shape1(src)
          /\ IF mask.v[r][1] # 0
             THEN out.v[r] = src.v[skip + Cardinality({q \in 1 .. r : mask.v[q][1] # 0})]
             ELSE \A j \in 1 .. Shape1(src) : out.v[r][j] = 0

\* C3: for a combined array of shape (N_left+N_right, k), the value under
\* the left tag has the left mask's length, holds the first N_left rows
\* at the left mask's true positions and zero elsewhere; the value under
\* the right tag has the right mask's length, holds the last N_right rows
\* at the right mask's true positions and zero elsewhere.
C3_SplitPerHemisphere ==
    (/\ splOut # Fail("idle")
     /\ splObj.nd = 2
     /\ Shape0(splObj) = PackedRows) =>
        /\ splOut.err = "none"
        /\ IF splTag[1] = "lh"
           THEN IsScatterOf(splOut.v, splLa, splObj, 0)
           ELSE IsScatterOf(splOut.v, splRa, splObj, Len(Where(splLa)))

\* C5: the transposed array (k, N_left+N_right) splits to the same value
\* as the array (N_left+N_right, k), for every k.
C5_TransposeSameSplit ==
    (/\ splOut # Fail("idle") /\ splOutT # Fail("idle")
     /\ splObj.nd = 2
     /\ Shape0(splObj) = PackedRows) =>
        splOutT = splOut

\* C6: when neither the leading dimension of the array nor that of its
\* transpose is the number of packed rows, the split raises the size error
\* and gives no value.
C6_SizeErrorUnlessMatch ==
    (/\ splOut # Fail("idle")
     /\ splObj.nd > 0
     /\ Shape0(splObj) # PackedRows
     /\ Shape0(Transpose(splObj)) # PackedRows) =>
        splOut = Fail("ValueError:size")

----------------------------------------------------------------------------
(* Claims about the normaliser *)

OrgRunning == orgStatus \in {"running", "returned"}

\* the triples of the leaves visited before the i-th
EarlierTriples(i) == UNION {TriplesOf(orgVisited[j].u) : j \in 1 .. (i - 1)}

\* the i-th visited leaf asks for a triple an earlier leaf registered
Duplicates(i) == TriplesOf(orgVisited[i].u) \cap EarlierTriples(i) # {}

\* hems[tag][table][name] is the file f
EntryIs(tag, table, name, f) ==
    /\ Has(hems, tag)
    /\ Has(hems[tag][table], name)
    /\ hems[tag][table][name] = f

\* no two of the leaves 1 .. n share a triple
NoSharedTriple(n) ==
    \A i, j \in 1 .. n :
        i # j => TriplesOf(orgVisited[i].u) \cap TriplesOf(orgVisited[j].u) = {}

\* the leaves 1 .. n are registered, each under its own triples and file
Registered(n) ==
    /\ NoSharedTriple(n)
    /\ TableTriples(imgs, hems) = EarlierTriples(n + 1)
    /\ \A i \in 1 .. n : \A tr \in TriplesOf(orgVisited[i].u) :
          IF tr[1] = "image"
          THEN Has(imgs, tr[3]) /\ imgs[tr[3]] = orgVisited[i].flnm
          ELSE EntryIs(tr[2], TableOf(tr[1]), tr[3], orgVisited[i].flnm)

TupleOnMesh(u) == u.type \in {"surface", "registration"} /\ u.hemi.tuple

----------------------------------------------------------------------------
(* The subject-id coercion as a state machine: one call on one argument, *)
(* over a file system in which some of the named directories exist.      *)

SidMargin == 2

LowId == 100000

HighId == 999999

SidInts ==
    ((LowId - SidMargin) .. (LowId + SidMargin))
        \cup ((HighId - SidMargin) .. (HighId + SidMargin))
        \cup {-123456, 0, 123456}

\* x.5 just under, at and over each end of the range
SidFloats == {10 * n + 5 : n \in ((LowId - 1) .. LowId) \cup (HighId .. (HighId + 1))}

PathA == <<"/", "d", "/", "1", "2", "3", "4", "5", "6">>

PathB == <<"/", "d", "/", "9", "9", "9", "9", "9">>

PathC == <<"/", "d", "/", "1", "2", "3", "4", "5", "6", "/">>

PathD == <<"/", "d", "/", "a", "b">>

PathE == <<"~", "/", "9", "9", "9", "9", "9", "9">>

PathF == <<"1", "0", "0", "0", "0", "0">>

SidStrings ==
    {PathA, PathB, PathC, PathD, PathE, PathF, <<>>,
     <<"9", "9", "9", "9", "9">>, <<"1", "0", "0", "0", "0", "0", "0">>,
     <<"0", "1", "2", "3", "4", "5">>, <<"a", "b">>}

SidDirCandidates == {PathA, PathB, PathC, PathD, expanduser(PathE), PathF}

SidArgs ==
    {IntArg(n) : n \in SidInts} \cup {FloatArg(x) : x \in SidFloats}
        \cup {StrArg(str) : str \in SidStrings} \cup {OtherArg}

SidInit ==
    /\ fsDirs \in SUBSET SidDirCandidates
    /\ sidArg \in SidArgs
    /\ sidResult = Idle
    /\ OrgIdle
    /\ SplIdle
    /\ SaIdle

CallToSubjectId ==
    /\ sidResult = Idle
    /\ sidResult' = to_subject_id(sidArg)
    /\ UNCHANGED <<fsDirs, sidArg, orgVars, splVars, saVars>>

\* the caller goes on to its next argument
NextSidArg ==
    /\ sidResult # Idle
    /\ sidArg' \in SidArgs
    /\ sidResult' = Idle
    /\ UNCHANGED <<fsDirs, orgVars, splVars, saVars>>

SidNext == CallToSubjectId \/ NextSidArg

SpecSid == SidInit /\ [][SidNext]_vars

----------------------------------------------------------------------------
(* Claims about to_subject_id *)

\* The integer an argument denotes when it is an integer given as a number
\* or as its decimal digits; "none" otherwise.
IsIntegerArg(a) ==
    \/ a.t = "int"
    \/ a.t = "str" /\ a.s # <<>> /\ (\A i \in DOMAIN a.s : IsDigit(a.s[i]))

IntegerOf(a) == IF a.t = "int" THEN a.n ELSE ParseNat(a.s)

EndsInSixDigitId(str) ==
    LET c == LastComponent(str, OsSep)
    IN  /\ Len(c) = 6
        /\ \A i \in DOMAIN c : IsDigit(c[i])
        /\ c[1] # "0"

C10_DirectoryPath ==
    (/\ sidResult # Idle
     /\ sidArg.t = "str"
     /\ isdir(expanduser(sidArg.s))
     /\ EndsInSixDigitId(expanduser(sidArg.s))) =>
        sidResult = Return(ParseNat(LastComponent(expanduser(sidArg.s), OsSep)))

C10_Witness ==
    /\ sidArg = StrArg(PathA)
    /\ PathA \in fsDirs
    /\ sidResult = Return(123456)

----------------------------------------------------------------------------
(* The SubjectAccess as a state machine: subjects are opened with         *)
(* subject_filemap, one after the other in one process, and the leaves of *)
(* the one last opened are read, over file systems in which some files of *)
(* the home subject are absent and with automatic download off or on; a   *)
(* second subject has no file anywhere.  The caches of the loaders last   *)
(* for the process.  loadCalls[f] lists the outcomes of the calls         *)
(* _load(f, dat) that the lazy map of the files made, reads[l] the        *)
(* outcomes of the reads of leaf l, in their order, since the subject was *)
(* opened.                                                                *)

MaxReads == 2

MaxAbsent == 1

MaxOpens == 2

\* the subject whose files the file system and the bucket hold
HomeSubject == CHOOSE s \in Subjects : \A t \in Subjects : s.id <= t.id

SubjectsRoot == << <<"hcp">>, <<"subjects">> >>

SaFiles == DOMAIN subject_structure.fmap

SaSubjectDir(sid) == SubjectsRoot \o << <<Str(sid)>> >>

T1File == <<<<"T1w">>, T1Key>>

AtlasLFile == <<<<"MNINonLinear">>, <<"fsaverage_LR32k">>, AtlasLKey>>

AtlasRFile == <<<<"MNINonLinear">>, <<"fsaverage_LR32k">>, AtlasRKey>>

SphereFile == <<<<"MNINonLinear">>, <<"fsaverage_LR32k">>, SphereKey>>

\* the masks of the native mesh of the subject and the tag of its left
\* hemisphere; the file map of the model does not hold these files
NativeLFile ==
    <<<<"MNINonLinear">>, <<"Native">>, <<"{id}", "L", "atlasroi", "native", "shape", "gii">>>>

NativeRFile ==
    <<<<"MNINonLinear">>, <<"Native">>, <<"{id}", "R", "atlasroi", "native", "shape", "gii">>>>

LhNative == <<"lh", "native", "MSMSulc">>

\* the files of a whole subject directory
WithNative(p) == IF p = SaFiles THEN p \cup {NativeLFile, NativeRFile} ELSE p

\* the combined-hemisphere arrays a file may hold; the masks below leave
\* three packed rows
SaCiftiContents ==
    {Arr2(<< <<11, 12, 13>> >>),
     Arr2(<< <<11, 12>>, <<21, 22>>, <<31, 32>> >>),
     Arr2(<< <<11, 12, 13>>, <<21, 22, 23>> >>),
     Arr2(<< <<11, 12>>, <<21, 22>> >>)}

\* what the files of the subject hold
SaContent(rel, cifti) ==
    CASE rel = T1File -> Obj(1)
      [] rel = AtlasLFile -> Arr1(<<2, 0>>)
      [] rel = AtlasRFile -> Arr1(<<0, 1, 1, 0>>)
      [] rel = SphereFile -> Obj(2)
      [] rel = NativeLFile -> Arr1(<<1, 0, 1>>)
      [] rel = NativeRFile -> Arr1(<<0, 1>>)
      [] OTHER -> cifti

\* the file systems the subject is opened over
SaWorlds ==
    {[auto |-> FALSE, ids |-> {}, present |-> SaFiles \ S, sdir |-> TRUE, remote |-> {}]
        : S \in {A \in SUBSET SaFiles : Cardinality(A) <= MaxAbsent}}
    \cup {[auto |-> FALSE, ids |-> {}, present |-> {}, sdir |-> FALSE, remote |-> {}]}
    \cup {[auto |-> TRUE, ids |-> {s.id : s \in Subjects}, present |-> p, sdir |-> d,
           remote |-> r]
            : p \in {SaFiles, {}}, d \in BOOLEAN,
              r \in {SaFiles, SaFiles \ {AtlasRFile}, {}}}
    \cup {[auto |-> TRUE, ids |-> {}, present |-> {}, sdir |-> TRUE, remote |-> SaFiles]}

SaInitFor(sid, cifti, wd) ==
    /\ fsFiles = [f \in {SaSubjectDir(sid) \o Format(rel, sid)
                            : rel \in WithNative(wd.present)} |->
                    SaContent(CHOOSE rel \in WithNative(wd.present) :
                                 SaSubjectDir(sid) \o Format(rel, sid) = f, cifti)]
    /\ fsDirs = {SubjectsRoot}
                  \cup (IF wd.sdir THEN {SaSubjectDir(sid)} ELSE {})
                  \cup UNION {makedirs({}, Dirname(SaSubjectDir(sid) \o Format(rel, sid)))
                              : rel \in WithNative(wd.present)}
    /\ bucket = [k \in {BucketKey("hcp-openaccess", "HCP_1200", sid, Format(rel, sid))
                          : rel \in WithNative(wd.remote)} |->
                    SaContent(CHOOSE rel \in WithNative(wd.remote) :
                                 Format(rel, sid) = k.path, cifti)]
    /\ auto_download_options =
          IF wd.auto
          THEN [enabled |-> TRUE, subjects_path |-> SubjectsRoot, overwrite |-> FALSE,
                release |-> "HCP_1200", database |-> "hcp-openaccess",
                subject_ids |-> wd.ids]
          ELSE NoAutoDownload

SaInit ==
    /\ \E cifti \in SaCiftiContents, wd \in SaWorlds :
          SaInitFor(HomeSubject.id, cifti, wd)
    /\ subjects_dirs = <<SubjectsRoot>>
    /\ roiAtlases = EmptyDict
    /\ sphereAtlases = [lh |-> EmptyDict, rh |-> EmptyDict]
    /\ sa = NoSubject
    /\ loadCalls = EmptyDict
    /\ fetches = EmptyDict
    /\ remoteChecks = 0
    /\ reads = EmptyDict
    /\ accesses = 0
    /\ decodes = EmptyDict
    /\ roiLoads = EmptyDict
    /\ opens = 0
    /\ pathArg = NoPath
    /\ maskOut = Fail("idle")
    /\ PthIdle
    /\ AutoIdle
    /\ CredIdle
    /\ NoThreads
    /\ DlIdle
    /\ sidArg = OtherArg
    /\ sidResult = Idle
    /\ OrgIdle
    /\ SplIdle

\* d.get(k, []) of a dict of lists
ListOf(d, k) == IF Has(d, k) THEN d[k] ELSE <<>>

\* the state the loaders leave
SetWorld(w) ==
    /\ fsFiles' = w.files
    /\ fsDirs' = w.dirs
    /\ roiAtlases' = w.roi
    /\ sphereAtlases' = w.sph
    /\ fetches' = w.gets
    /\ remoteChecks' = w.checks
    /\ decodes' = w.decs
    /\ roiLoads' = w.rois
    /\ fetchedFrom' = w.keysLoad
    /\ pulledFrom' = w.keysPull

\* the state a call of subject_filemap leaves, r being what it gave
Constructed(r) ==
    /\ sa' = r.sa
    /\ SetWorld(r.w)
    /\ loadCalls' = [f \in r.ran |-> <<r.sa.err>>]

\* the state a read of leaf l leaves, r being what the lazy map gave
Accessed(l, r) ==
    /\ sa' = r.sa
    /\ SetWorld(r.w)
    /\ loadCalls' = IF r.ran
                    THEN Put(loadCalls, LeafPath(sa, l),
                             Append(ListOf(loadCalls, LeafPath(sa, l)), r.loaded))
                    ELSE loadCalls
    /\ reads' = Put(reads, l, Append(ListOf(reads, l), r.res))

\* subject_filemap(sid) or subject_filemap(sid, subject_path)
Construct ==
    /\ opens < MaxOpens
    /\ \E s \in Subjects, subject_path \in {NoPath, SubjectsRoot} :
          /\ Constructed(subject_filemap([World EXCEPT !.decs = EmptyDict], s.id,
                                         subject_path))
          /\ pathArg' = subject_path
    /\ opens' = opens + 1
    /\ reads' = EmptyDict
    /\ UNCHANGED <<pthVars, autoVars, credVars, threads,
                   bucket, auto_download_options, subjects_dirs, accesses,
                   dlOrder, dlArgs, dlOut, dlBefore, dlCalls, dlLoads, maskOut,
                   sidArg, sidResult, orgVars, splVars>>

\* a read of a leaf of the SubjectAccess
Access ==
    /\ sa.status = "built"
    /\ accesses < MaxReads
    /\ \E l \in SaLeaves : Accessed(l, LeafGet(World, sa, l))
    /\ accesses' = accesses + 1
    /\ UNCHANGED <<pthVars, autoVars, credVars, threads,
                   bucket, auto_download_options, subjects_dirs, opens, pathArg,
                   dlOrder, dlArgs, dlOut, dlBefore, dlCalls, dlLoads, maskOut,
                   sidArg, sidResult, orgVars, splVars>>

\* the state a direct call of _load_fsLR_atlasroi leaves, r being what it
\* gave
Requested(r) ==
    /\ SetWorld(r.w)
    /\ maskOut' = r.res

\* _load_fsLR_atlasroi(filename, dat) on the file of the left mask of the
\* native mesh of the subject, with the data of a leaf of that mesh
RequestNativeMasks ==
    /\ sa.status = "built"
    /\ accesses < MaxReads
    /\ Requested(_load_fsLR_atlasroi(World, sa.sdir \o Format(NativeLFile, sa.id),
                                     [AtlasDat(sa.id, LhNative) EXCEPT !.hasCifti = TRUE]))
    /\ accesses' = accesses + 1
    /\ UNCHANGED <<pthVars, autoVars, credVars, threads,
                   bucket, auto_download_options, subjects_dirs, opens, pathArg, sa,
                   loadCalls, reads, dlOrder, dlArgs, dlOut, dlBefore, dlCalls, dlLoads,
                   sidArg, sidResult, orgVars, splVars>>

Next == Construct \/ Access \/ RequestNativeMasks

Spec == SaInit /\ [][Next]_vars

----------------------------------------------------------------------------
(* Claims about the SubjectAccess *)

\* the reads of leaf l that returned
OkReads(l) == {i \in DOMAIN ListOf(reads, l) : reads[l][i].err = "none"}

\* the calls _load(f, dat) of the lazy map that returned
OkLoads(f) == {i \in DOMAIN ListOf(loadCalls, f) : loadCalls[f][i] = "none"}

\* C1: once a read of a leaf has returned, every read of it returns the one
\* value the SubjectAccess keeps for it, and the SubjectAccess has called
\* _load for the leaf's file exactly once with success and never again.
C1_ReadTwiceLoadsOnce ==
    sa.status = "built" =>
        \A l \in SaLeaves :
            OkReads(l) # {} =>
                /\ Has(sa.leaves, l)
                /\ \A i \in OkReads(l) :
                      /\ reads[l][i] = Ok(sa.leaves[l])
                      /\ \A j \in i .. Len(reads[l]) : j \in OkReads(l)
                /\ Cardinality(OkLoads(LeafPath(sa, l))) = 1
                /\ Last(loadCalls[LeafPath(sa, l)]) = "none"

\* a leaf was read twice and both reads returned
C1_Witness ==
    \E l \in DOMAIN reads : Cardinality(OkReads(l)) >= 2

\* the masks of the mesh of the mini structure are in the cache of masks
RoiCached == Has(roiAtlases, "32k_fs_LR")

\* the sphere of leaf l is in the cache of spheres
SphereCached(l) ==
    LET parts == Last(LeafPath(sa, l))
    IN  Has(sphereAtlases[SphereHemi(parts[2])], <<parts[4], parts[3]>>)

\* the loader of leaf l answers from a cache of the process and leaves the
\* file of the leaf alone
AnsweredFromCache(l) ==
    LET d == subject_structure.fmap[LeafFile(l)]
    IN  \/ d.load = "_load_fsLR_atlasroi" /\ RoiCached
        \/ d.load = "_load_atlas_sphere" /\ SphereCached(l)

\* the files a read of leaf l needs: its own and, for a combined-hemisphere
\* file and for an atlas mask, the two atlas files, but for what a cache
\* of the process holds
Needs(l) ==
    LET d == subject_structure.fmap[LeafFile(l)]
    IN  (IF AnsweredFromCache(l) THEN {} ELSE {LeafPath(sa, l)})
            \cup (IF (d.cifti \/ d.load = "_load_fsLR_atlasroi") /\ ~RoiCached
                  THEN {sa.sdir \o Format(AtlasLFile, sa.id),
                        sa.sdir \o Format(AtlasRFile, sa.id)}
                  ELSE {})

NotFound == Fail("ValueError:File not found")

IsCiftiLeaf(l) ==
    subject_structure.fmap[LeafFile(l)].hasCifti /\ subject_structure.fmap[LeafFile(l)].cifti

\* the rows of v outside the mask are zero
ZeroOutside(v, mask) ==
    \A r \in 1 .. Shape0(v) : mask.v[r][1] = 0 => \A j \in DOMAIN v.v[r] : v.v[r][j] = 0

\* C4: every value a read of a combined-hemisphere leaf returns has the
\* length of the mask of one hemisphere and is zero outside that mask: it
\* is never the array as the file holds it.
C4_CiftiNeverUnsplit ==
    sa.status = "built" =>
        \A l \in SaLeaves : \A i \in OkReads(l) :
            IsCiftiLeaf(l) =>
                /\ Has(roiAtlases, "32k_fs_LR")
                /\ reads[l][i].v.nd >= 1
                /\ \E mask \in {roiAtlases["32k_fs_LR"].la, roiAtlases["32k_fs_LR"].ra} :
                      /\ Shape0(reads[l][i].v) = Shape0(mask)
                      /\ ZeroOutside(reads[l][i].v, mask)

\* a read of a combined-hemisphere leaf returned, and the array of its file
\* has another length than the value
C4_Witness ==
    /\ sa.status = "built"
    /\ \E l \in DOMAIN reads :
          /\ IsCiftiLeaf(l)
          /\ OkReads(l) # {}
          /\ Has(sa.fls, LeafPath(sa, l))
          /\ Shape0(sa.fls[LeafPath(sa, l)]) # Shape0(reads[l][1].v)

\* the leaves that are registered under one file of the file map
LeavesOf(rel) == {l \in SaLeaves : LeafFile(l) = rel}

\* the value a leaf of file f shows, given the value kept for the file
ShownOf(l, f) ==
    IF IsCiftiLeaf(l)
    THEN CiftiSplit(sa.fls[f], subject_structure.fmap[LeafFile(l)].hemi,
                    roiAtlases["32k_fs_LR"].la, roiAtlases["32k_fs_LR"].ra)
    ELSE Ok(sa.fls[f])

\* C11: for a file that several leaves (names or hemisphere tags) are
\* registered under, once any of them has been read the lazy map of the
\* files has run the file's lambda with success exactly once, the file was
\* read from disk at most once, and every such leaf that was read shows the
\* one value kept for the file (split by hemisphere for a combined file).
C11_SharedFileDecodedOnce ==
    sa.status = "built" =>
        \A rel \in SaFiles :
            Cardinality(LeavesOf(rel)) >= 2 =>
                \A l \in LeavesOf(rel) :
                    OkReads(l) # {} =>
                        /\ Cardinality(OkLoads(LeafPath(sa, l))) = 1
                        /\ Count(decodes, LeafPath(sa, l)) <= 1
                        /\ Has(sa.fls, LeafPath(sa, l))
                        /\ \A i \in OkReads(l) : reads[l][i] = ShownOf(l, LeafPath(sa, l))

\* all the leaves of a shared file were read and the file was read once
C11_Witness ==
    /\ sa.status = "built"
    /\ \E rel \in SaFiles :
          /\ Cardinality(LeavesOf(rel)) >= 2
          /\ \A l \in LeavesOf(rel) : OkReads(l) # {}
          /\ Count(decodes, sa.sdir \o Format(rel, sa.id)) = 1

\* the step is the first read of leaf l of the SubjectAccess
FirstRead(l) == ListOf(reads, l) = <<>> /\ Len(ListOf(reads', l)) = 1

\* automatic download is off or does not list the subject
NoRemote ==
    \/ ~auto_download_options.enabled
    \/ sa.id \notin auto_download_options.subject_ids

\* the step asks the bucket nothing and copies nothing
NothingFetched ==
    /\ remoteChecks' = remoteChecks
    /\ fetches' = fetches
    /\ fsFiles' = fsFiles

\* C12 as stated: the first read of every leaf whose file is absent, with
\* automatic download off or the subject not listed, raises 'File not
\* found', and the bucket is neither asked nor copied from.
C12_AbsentAlwaysNotFound ==
    [][\A l \in SaLeaves :
          (FirstRead(l) /\ NoRemote /\ ~Has(fsFiles, LeafPath(sa, l))) =>
              /\ reads'[l][1] = NotFound
              /\ NothingFetched]_vars

\* C12: the first read of a leaf whose file is absent, with automatic
\* download off or the subject not listed, neither asks the bucket nor
\* copies from it; it raises 'File not found' unless the leaf's loader finds
\* its entry in a cache of the process (the masks of the mesh, the sphere
\* of the atlas), and then it returns without looking for the file.
C12_AbsentNotFoundUnlessCached ==
    [][\A l \in SaLeaves :
          (FirstRead(l) /\ NoRemote /\ ~Has(fsFiles, LeafPath(sa, l))) =>
              /\ NothingFetched
              /\ IF AnsweredFromCache(l)
                 THEN reads'[l][1].err = "none"
                 ELSE reads'[l][1] = NotFound]_vars

\* automatic download is on and does not list the subject, whose bucket
\* holds the file; the first read of a leaf of an absent file raised and
\* the bucket was not asked
C12_Witness ==
    /\ sa.status = "built"
    /\ auto_download_options.enabled
    /\ sa.id \notin auto_download_options.subject_ids
    /\ remoteChecks = 0
    /\ fetches = EmptyDict
    /\ \E l \in DOMAIN reads :
          /\ ~Has(fsFiles, LeafPath(sa, l))
          /\ reads[l][1] = NotFound
          /\ \E k \in DOMAIN bucket : k.sid = sa.id /\ k.path = Format(LeafFile(l), sa.id)

\* the step is a call subject_filemap(sid), which searches for the subject
Resolved == opens' = opens + 1 /\ pathArg' = NoPath

\* no search path holds a directory of the subject
NoDirectoryOf(sid) ==
    /\ << <<Str(sid)>> >> \notin fsDirs
    /\ \A i \in DOMAIN subjects_dirs : (subjects_dirs[i] \o << <<Str(sid)>> >>) \notin fsDirs

\* the files under directory d
FilesUnder(files, d) ==
    {f \in DOMAIN files : Len(f) > Len(d) /\ SubSeq(f, 1, Len(d)) = d}

\* C13: when subject_filemap(sid) finds no directory of the subject in any
\* search path, then with automatic download on and the id listed it makes
\* the directory subjects_path/sid, which holds no file, and the
\* SubjectAccess is over that directory; with automatic download off or the
\* id not listed it makes no directory and raises.
C13_ResolveProvisions ==
    [][(Resolved /\ NoDirectoryOf(sa'.id)) =>
          IF auto_download_options.enabled
                /\ sa'.id \in auto_download_options.subject_ids
          THEN /\ sa'.status = "built"
               /\ sa'.sdir = auto_download_options.subjects_path \o << <<Str(sa'.id)>> >>
               /\ sa'.sdir \in fsDirs'
               /\ fsDirs' \ fsDirs \subseteq makedirs({}, sa'.sdir)
               /\ FilesUnder(fsFiles', sa'.sdir) = {}
               /\ fsFiles' = fsFiles
          ELSE /\ fsDirs' = fsDirs
               /\ sa'.status = "failed"]_vars

\* subject_filemap(sid) has made the directory of a subject that had none,
\* and nothing is in it
C13_Witness ==
    /\ sa.status = "built"
    /\ pathArg = NoPath
    /\ accesses = 0
    /\ sa.id # HomeSubject.id
    /\ sa.sdir = SaSubjectDir(sa.id)
    /\ sa.sdir \in fsDirs
    /\ FilesUnder(fsFiles, sa.sdir) = {}

\* the key of the bucket that the file f of the SubjectAccess is copied from
RemoteKey(f) ==
    BucketKey(auto_download_options.database, auto_download_options.release, sa.id,
              RelPath(f, sa.id))

\* every file on the disk was copied from the bucket: the directories of
\* the subjects held no file at first (no step removes a file)
StartedEmpty == \A f \in DOMAIN fsFiles : Has(fetches, f)

\* C14: no file is copied from the bucket twice, and what was copied is on
\* the disk with the content of its key; for a subject that automatic
\* download provides and whose directory held no file, every leaf that was
\* read and whose file the bucket holds has had that file copied once,
\* however many leaves of the file were read and however often.
C14_EachKeyFetchedOnce ==
    /\ \A f \in DOMAIN fetches : fetches[f] = 1 /\ Has(fsFiles, f)
    /\ (sa.status = "built" /\ StartedEmpty) =>
          \A l \in SaLeaves :
              (OkReads(l) # {} /\ RemoteKey(LeafPath(sa, l)) \in DOMAIN bucket) =>
                  /\ Count(fetches, LeafPath(sa, l)) = 1
                  /\ fsFiles[LeafPath(sa, l)] = bucket[RemoteKey(LeafPath(sa, l))]

\* two leaves of one file of a subject whose directory was empty were
\* read, and the file was copied once
C14_Witness ==
    /\ sa.status = "built"
    /\ StartedEmpty
    /\ \E l \in DOMAIN reads, k \in DOMAIN reads :
          /\ l # k
          /\ LeafFile(l) = LeafFile(k)
          /\ OkReads(l) # {}
          /\ OkReads(k) # {}
          /\ Count(fetches, LeafPath(sa, l)) = 1

----------------------------------------------------------------------------
(* download and the copy that _data_load makes, as a state machine: over  *)
(* disks and buckets that hold some of the files of the home subject,     *)
(* download is called with each value of overwrite, and _data_load is     *)
(* called on files of the file map with automatic download on.  The files *)
(* on the disk hold another content than the objects of the bucket, so    *)
(* that a file that was overwritten shows.                                *)

MaxCalls == 1

MaxLoads == 1

\* what a file holds that was on the disk before any copy
DlLocalContent == Obj(9)

\* the orders in which a dict may yield the keys of the file map
DlOrders ==
    {o \in [1 .. Cardinality(SaFiles) -> SaFiles] :
        \A i, j \in DOMAIN o : o[i] = o[j] => i = j}

\* all the files, all but one and all but two
AllBut == {SaFiles, SaFiles \ {AtlasRFile}, SaFiles \ {T1File, SphereFile}}

\* the files on the disk and the objects in the bucket: a bucket that holds
\* the subject whole under a disk that lacks some files, all or none, a
\* bucket that lacks one object under a full or an empty disk, and a bucket
\* without the release
DlWorlds ==
    {[present |-> p, remote |-> SaFiles] : p \in AllBut \cup {{}}}
        \cup {[present |-> p, remote |-> SaFiles \ {AtlasRFile}] : p \in {{}, SaFiles}}
        \cup {[present |-> {}, remote |-> {}]}

DlInitFor(sid, present, remote, order) ==
    /\ fsFiles = [f \in {SaSubjectDir(sid) \o Format(rel, sid) : rel \in present} |->
                    DlLocalContent]
    /\ fsDirs = {SubjectsRoot}
                  \cup UNION {makedirs({}, Dirname(SaSubjectDir(sid) \o Format(rel, sid)))
                              : rel \in present}
    /\ bucket = [k \in {BucketKey("hcp-openaccess", "HCP_1200", sid, Format(rel, sid))
                          : rel \in remote} |->
                    SaContent(CHOOSE rel \in remote : Format(rel, sid) = k.path,
                              CHOOSE c \in SaCiftiContents : TRUE)]
    /\ auto_download_options =
          [enabled |-> TRUE, subjects_path |-> SubjectsRoot, overwrite |-> FALSE,
           release |-> "HCP_1200", database |-> "hcp-openaccess",
           subject_ids |-> {s.id : s \in Subjects}]
    /\ dlOrder = order

DlInit ==
    /\ \E wd \in DlWorlds, order \in DlOrders :
          DlInitFor(HomeSubject.id, wd.present, wd.remote, order)
    /\ subjects_dirs = <<SubjectsRoot>>
    /\ roiAtlases = EmptyDict
    /\ sphereAtlases = [lh |-> EmptyDict, rh |-> EmptyDict]
    /\ sa = NoSubject
    /\ loadCalls = EmptyDict
    /\ fetches = EmptyDict
    /\ remoteChecks = 0
    /\ reads = EmptyDict
    /\ accesses = 0
    /\ decodes = EmptyDict
    /\ roiLoads = EmptyDict
    /\ opens = 0
    /\ pathArg = NoPath
    /\ maskOut = Fail("idle")
    /\ PthIdle
    /\ AutoIdle
    /\ CredIdle
    /\ NoThreads
    /\ fetchedFrom = EmptyDict
    /\ pulledFrom = EmptyDict
    /\ dlArgs = NoCall
    /\ dlOut = Fail("idle")
    /\ dlBefore = EmptyDict
    /\ dlCalls = 0
    /\ dlLoads = 0
    /\ sidArg = OtherArg
    /\ sidResult = Idle
    /\ OrgIdle
    /\ SplIdle

\* the state a call of download leaves, r being what it gave
Downloaded(r) ==
    /\ SetWorld(r.w)
    /\ dlOut' = r.res

\* download(sid, overwrite=...)
Download ==
    /\ dlCalls < MaxCalls
    /\ \E overwrite \in {"False", "True", "error"} :
          /\ Downloaded(download(World, HomeSubject.id, NoPath, overwrite,
                                 "HCP_1200", "hcp-openaccess", dlOrder))
          /\ dlArgs' = [sid |-> HomeSubject.id, subjects_path |-> SubjectsRoot,
                        overwrite |-> overwrite]
    /\ dlBefore' = fsFiles
    /\ dlCalls' = dlCalls + 1
    /\ UNCHANGED <<pthVars, autoVars, credVars, threads,
                   bucket, auto_download_options, subjects_dirs, sa, loadCalls, reads,
                   accesses, opens, pathArg, maskOut, dlOrder, dlLoads, sidArg, sidResult,
                   orgVars, splVars>>

\* _data_load(filename, dat) on a file of the file map of the subject
LoadOnDemand ==
    /\ dlLoads < MaxLoads
    /\ \E rel \in SaFiles :
          SetWorld(_data_load(World,
                              SaSubjectDir(HomeSubject.id) \o Format(rel, HomeSubject.id),
                              Merge(subject_structure.fmap[rel], HomeSubject.id)).w)
    /\ dlLoads' = dlLoads + 1
    /\ UNCHANGED <<pthVars, autoVars, credVars, threads,
                   bucket, auto_download_options, subjects_dirs, sa, loadCalls, reads,
                   accesses, opens, pathArg, maskOut, dlOrder, dlArgs, dlOut, dlBefore, dlCalls,
                   sidArg, sidResult, orgVars, splVars>>

DlNext == Download \/ LoadOnDemand

SpecDownload == DlInit /\ [][DlNext]_vars

----------------------------------------------------------------------------
(* Claims about download *)

\* the local file of key rel of the file map in the last call of download
DlLocal(rel) ==
    dlArgs.subjects_path \o << <<Str(dlArgs.sid)>> >> \o Format(rel, dlArgs.sid)

\* the object of the bucket that download copies to the file of key rel
DlRemote(rel) ==
    BucketKey("hcp-openaccess", "HCP_1200", dlArgs.sid, Format(rel, dlArgs.sid))

\* the last call of download returned its list
DlReturned == dlArgs # NoCall /\ dlOut.err = "none"

\* the list names each of its paths once
NoRepeat(q) == \A i, j \in DOMAIN q : q[i] = q[j] => i = j

\* C15: a call of download with overwrite=False that returns has copied
\* the files of the file map that were not on the disk and no other, and
\* returns their paths, each once; with overwrite=True it has copied every
\* file of the file map and returns every path.  A file it returns holds
\* the object of the bucket, any other file holds what it held before.
C15_DownloadReturnsWhatItWrote ==
    (DlReturned /\ dlArgs.overwrite \in {"False", "True"}) =>
        /\ NoRepeat(dlOut.v)
        /\ Range(dlOut.v) =
              {DlLocal(rel) : rel \in {k \in SaFiles : \/ dlArgs.overwrite = "True"
                                                      \/ ~Has(dlBefore, DlLocal(k))}}
        /\ \A rel \in SaFiles :
              IF DlLocal(rel) \in Range(dlOut.v)
              THEN /\ Has(fsFiles, DlLocal(rel))
                   /\ fsFiles[DlLocal(rel)] = bucket[DlRemote(rel)]
                   /\ Has(pulledFrom, DlLocal(rel))
              ELSE /\ Has(fsFiles, DlLocal(rel))
                   /\ fsFiles[DlLocal(rel)] = dlBefore[DlLocal(rel)]
        /\ DOMAIN fsFiles \ DOMAIN dlBefore \subseteq Range(dlOut.v)

\* download with overwrite=False returned over a disk that held some files
\* of the subject and lacked another, and left a file as it was
C15_Witness ==
    /\ DlReturned
    /\ dlArgs.overwrite = "False"
    /\ dlOut.v # <<>>
    /\ \E rel \in SaFiles :
          /\ Has(dlBefore, DlLocal(rel))
          /\ fsFiles[DlLocal(rel)] = DlLocalContent
          /\ fsFiles[DlLocal(rel)] # bucket[DlRemote(rel)]

\* the step is a call of download
DownloadStep == dlCalls' = dlCalls + 1

\* the local file and the object of the bucket of the i-th key of the walk
\* of the call that the step makes
LocAt(i) == dlArgs'.subjects_path \o << <<Str(dlArgs'.sid)>> >> \o Format(dlOrder[i], dlArgs'.sid)

RemAt(i) == BucketKey("hcp-openaccess", "HCP_1200", dlArgs'.sid, Format(dlOrder[i], dlArgs'.sid))

\* the call copies the i-th key if it comes to it
Wanted(i) == Truthy(dlArgs'.overwrite) \/ ~Has(fsFiles, LocAt(i))

\* the step leaves the file f as it was and copies nothing to it
Untouched(f) ==
    /\ Has(fsFiles', f) <=> Has(fsFiles, f)
    /\ Has(fsFiles, f) => fsFiles'[f] = fsFiles[f]
    /\ Count(fetches', f) = Count(fetches, f)

\* C16: a call of download raises the error of the copy exactly when the
\* bucket lacks an object that the walk comes to; then the files of the
\* keys before it that were to be copied hold the objects of the bucket
\* (nothing is rolled back) and no file of a later key was copied.
C16_FailureStopsWithoutRollback ==
    [][(DownloadStep /\ BucketHasSubject("hcp-openaccess", "HCP_1200", dlArgs'.sid)) =>
          /\ dlOut'.err = "IOError" <=>
                \E i \in DOMAIN dlOrder : Wanted(i) /\ RemAt(i) \notin DOMAIN bucket
          /\ dlOut'.err = "IOError" =>
                \E n \in DOMAIN dlOrder :
                    /\ Wanted(n) /\ RemAt(n) \notin DOMAIN bucket
                    /\ \A i \in 1 .. (n - 1) :
                          IF Wanted(i)
                          THEN /\ Has(fsFiles', LocAt(i))
                               /\ fsFiles'[LocAt(i)] = bucket[RemAt(i)]
                               /\ Count(fetches', LocAt(i)) = Count(fetches, LocAt(i)) + 1
                          ELSE Untouched(LocAt(i))
                    /\ \A i \in n .. Len(dlOrder) : Untouched(LocAt(i))]_vars

\* a call of download raised after it had copied a file, and a file that
\* the bucket holds was left uncopied
C16_Witness ==
    /\ dlArgs # NoCall
    /\ dlOut.err = "IOError"
    /\ \E rel \in SaFiles :
          /\ ~Has(dlBefore, DlLocal(rel))
          /\ Has(fsFiles, DlLocal(rel))
          /\ fsFiles[DlLocal(rel)] = bucket[DlRemote(rel)]
    /\ \E rel \in SaFiles :
          /\ ~Has(fsFiles, DlLocal(rel))
          /\ DlRemote(rel) \in DOMAIN bucket

\* C17: a call of download with overwrite='error' over a disk that holds a
\* file of the file map raises, and every file that was on the disk holds
\* what it held before the call.
C17_ErrorOptionRaises ==
    (/\ dlArgs # NoCall
     /\ dlArgs.overwrite = "error"
     /\ BucketHasSubject("hcp-openaccess", "HCP_1200", dlArgs.sid)
     /\ \E rel \in SaFiles : Has(dlBefore, DlLocal(rel))) =>
        /\ dlOut.err # "none"
        /\ \A rel \in SaFiles :
              Has(dlBefore, DlLocal(rel)) => fsFiles[DlLocal(rel)] = dlBefore[DlLocal(rel)]

\* the file of every key of the file map under the directory of every
\* subject, with the id of the subject and the key formatted with the id
SubjectFiles ==
    {[file |-> SaSubjectDir(s.id) \o Format(rel, s.id), sid |-> s.id,
      key |-> Format(rel, s.id)] : s \in Subjects, rel \in SaFiles}

\* C18: for every subject and every key of the file map, the object that
\* _data_load copies to the file of the key under the directory of the
\* subject, and the object that download copies to that same file, is the
\* one whose key is database/release/sid/key formatted with the id; neither
\* asks the bucket for the object of any other file.
C18_SameKeyBothWays ==
    /\ \A e \in SubjectFiles :
          /\ Has(fetchedFrom, e.file) =>
                fetchedFrom[e.file] =
                    BucketKey(auto_download_options.database, auto_download_options.release,
                              e.sid, e.key)
          /\ Has(pulledFrom, e.file) =>
                pulledFrom[e.file] = BucketKey("hcp-openaccess", "HCP_1200", e.sid, e.key)
    /\ \A f \in DOMAIN fetchedFrom \cup DOMAIN pulledFrom :
          \E e \in SubjectFiles : f = e.file
    /\ \A f \in DOMAIN fetchedFrom \cap DOMAIN pulledFrom : fetchedFrom[f] = pulledFrom[f]

\* a file below the directory of the subject was copied by _data_load and
\* by download
C18_Witness ==
    \E f \in DOMAIN fetchedFrom \cap DOMAIN pulledFrom :
        /\ Len(fetchedFrom[f].path) >= 2
        /\ Has(fsFiles, f)
        /\ fsFiles[f] = bucket[pulledFrom[f]]

----------------------------------------------------------------------------
(* Claims about the cache of the masks *)

\* the leaf is read through _load_fsLR_atlasroi
IsAtlasLeaf(l) == subject_structure.fmap[LeafFile(l)].load = "_load_fsLR_atlasroi"

\* the masks of every mesh but the native one were loaded once if at all,
\* and are then in the cache; what a read of an atlas leaf returned is the
\* mask of its hemisphere in the cache, what a read of a leaf of a combined
\* file returned is the file's array split by the masks in the cache
MasksLoadedOnce ==
    /\ \A atl \in (DOMAIN roiLoads \cup DOMAIN roiAtlases) \ {"native"} :
          Count(roiLoads, atl) = 1 /\ Has(roiAtlases, atl)
    /\ sa.status = "built" =>
          \A l \in SaLeaves : \A i \in OkReads(l) :
              /\ IsAtlasLeaf(l) =>
                    /\ RoiCached
                    /\ reads[l][i] = ApplyFilt(subject_structure.fmap[LeafFile(l)].filt,
                                               roiAtlases["32k_fs_LR"])
              /\ IsCiftiLeaf(l) =>
                    /\ RoiCached
                    /\ reads[l][i] = ShownOf(l, LeafPath(sa, l))

\* no step changes or drops a pair of masks that is in the cache
MasksKept ==
    \A atl \in DOMAIN roiAtlases : Has(roiAtlases', atl) /\ roiAtlases'[atl] = roiAtlases[atl]

\* C19: over the reads of atlas leaves and of leaves of combined files of
\* the subjects that are opened, the two mask files of a mesh other than
\* the native one are loaded once, on the first request; the pair then
\* stays in the cache unchanged and every request is answered from it.
C19_MasksLoadedOnFirstRequest == [](MasksLoadedOnce) /\ [][MasksKept]_vars

\* a subject without files was opened after the masks were loaded, and a
\* read of its atlas leaf returned
C19_Witness ==
    /\ sa.status = "built"
    /\ sa.id # HomeSubject.id
    /\ FilesUnder(fsFiles, sa.sdir) = {}
    /\ Count(roiLoads, "32k_fs_LR") = 1
    /\ \E l \in DOMAIN reads : IsAtlasLeaf(l) /\ OkReads(l) # {}

\* the step is a direct request of the masks of the native mesh
NativeRequest == accesses' = accesses + 1 /\ reads' = reads

\* the masks as the two native files of the subject hold them
NativeMasks ==
    Pair(Squeeze(fsFiles'[sa.sdir \o Format(NativeLFile, sa.id)]),
         Squeeze(fsFiles'[sa.sdir \o Format(NativeRFile, sa.id)]))

\* C20: the cache of the masks never holds an entry of the native mesh; a
\* request of the native masks that returns has read the two native files
\* of the subject in that call, returns what they hold, and leaves the
\* cache as it was.
C20_NativeNeverCached ==
    /\ [](~Has(roiAtlases, "native"))
    /\ [][(NativeRequest /\ maskOut'.err = "none") =>
             /\ Count(roiLoads', "native") = Count(roiLoads, "native") + 1
             /\ \A rel \in {NativeLFile, NativeRFile} :
                   Count(decodes', sa.sdir \o Format(rel, sa.id)) =
                       Count(decodes, sa.sdir \o Format(rel, sa.id)) + 1
             /\ maskOut'.v = NativeMasks
             /\ roiAtlases' = roiAtlases]_vars

\* the native masks of a subject were requested and loaded twice
C20_Witness ==
    /\ maskOut.err = "none"
    /\ Count(roiLoads, "native") >= 2
    /\ Count(decodes, sa.sdir \o Format(NativeLFile, sa.id)) >= 2

----------------------------------------------------------------------------
(* The search paths and the resolution of a subject.  In this part a path *)
(* is a string, the sequence of its characters, as in to_subject_id; the  *)
(* arguments are integers and strings (IntArg, StrArg), None is written   *)
(* NoPath for a path and [given |-> FALSE] for an index.                  *)

\* str(n) of a natural number
RECURSIVE StrOfNat(_)
StrOfNat(n) ==
    IF n < 10 THEN <<Digits[n + 1]>>
    ELSE Append(StrOfNat(n \div 10), Digits[(n % 10) + 1])

\* str(sid)
StrOf(a) == IF a.t = "str" THEN a.s ELSE StrOfNat(a.n)

\* os.path.join(a, b)
join(a, b) ==
    IF b # <<>> /\ b[1] = OsSep THEN b
    ELSE IF a = <<>> \/ Last(a) = OsSep THEN a \o b
    ELSE a \o <<OsSep>> \o b

\* the working directory
CwdStr == <<"/", "w">>

\* os.path.abspath of a path that holds no '.', '..' or doubled separator
abspath(p) == IF p # <<>> /\ p[1] = OsSep THEN p ELSE join(CwdStr, p)

\* os.makedirs(p) of an absolute path: p and every directory above it
makedirs_str(dirs, p) ==
    dirs \cup {p} \cup {SubSeq(p, 1, i - 1) : i \in {j \in 2 .. Len(p) : p[j] = OsSep}}

\* what a call returned (v), returned as None, or raised; dirs are the
\* directories it leaves
PthRet(v, dirs) == [err |-> "none", none |-> FALSE, ok |-> FALSE, v |-> v, dirs |-> dirs]

PthNone(dirs) == [err |-> "none", none |-> TRUE, ok |-> FALSE, v |-> <<>>, dirs |-> dirs]

PthRaise(e, dirs) == [err |-> e, none |-> FALSE, ok |-> FALSE, v |-> <<>>, dirs |-> dirs]

\* _auto_downloadable(sid) for any argument: to_subject_id may raise
AutoDownloadable(a) ==
    IF ~auto_download_options.enabled THEN [err |-> "none", v |-> FALSE]
    ELSE IF to_subject_id(a).err # "none" THEN [err |-> to_subject_id(a).err, v |-> FALSE]
    ELSE [err |-> "none", v |-> to_subject_id(a).v \in auto_download_options.subject_ids]

\* the greatest of a set of numbers
Max(S) == CHOOSE i \in S : \A j \in S : i >= j

\* a search that takes the last search path that holds the subject
FindSubjectPathLast(a) ==
    LET sub == StrOf(a)
        hits == {i \in DOMAIN subjects_dirs : isdir(join(subjects_dirs[i], sub))}
    IN  IF isdir(sub) THEN PthRet(abspath(sub), fsDirs)
        ELSE IF hits # {}
        THEN PthRet(abspath(join(subjects_dirs[Max(hits)], sub)), fsDirs)
        ELSE IF ~auto_download_options.enabled THEN PthNone(fsDirs)
        ELSE IF AutoDownloadable(a).err # "none"
        THEN PthRaise(AutoDownloadable(a).err, fsDirs)
        ELSE IF ~AutoDownloadable(a).v THEN PthNone(fsDirs)
        ELSE IF isdir(join(auto_download_options.subjects_path, sub))
        THEN PthRet(join(auto_download_options.subjects_path, sub), fsDirs)
        ELSE PthRet(join(auto_download_options.subjects_path, sub),
                    makedirs_str(fsDirs, join(auto_download_options.subjects_path, sub)))

\* find_subject_path(sid) for any integer or string
FindSubjectPath(a) ==
    LET sub == StrOf(a)
        hits == {i \in DOMAIN subjects_dirs : isdir(join(subjects_dirs[i], sub))}
        able == AutoDownloadable(a)
        pth == join(auto_download_options.subjects_path, sub)
    IN  IF isdir(sub) THEN PthRet(abspath(sub), fsDirs)
        ELSE IF hits # {}
        THEN PthRet(abspath(join(subjects_dirs[Min(hits)], sub)), fsDirs)
        ELSE IF ~auto_download_options.enabled THEN PthNone(fsDirs)
        ELSE IF able.err # "none" THEN PthRaise(able.err, fsDirs)
        ELSE IF ~able.v THEN PthNone(fsDirs)
        ELSE IF isdir(pth) THEN PthRet(pth, fsDirs)
        ELSE PthRet(pth, makedirs_str(fsDirs, pth))

\* subject_filemap raised e
FilemapRaised(e, dirs) ==
    [err |-> e, dirs |-> dirs, sa |-> [NoSubject EXCEPT !.status = "failed", !.err = e]]

\* the lazy maps of subject_filemap over the directory sdir: no file is
\* looked for when they are built
FilemapBuilt(sid, sdir, dirs) ==
    [err |-> "none", dirs |-> dirs,
     sa |-> Built(lazy_map(World, sdir, sid), sid, sdir).sa]

\* subject_filemap from `if sdir is None` on; found is what was found
FilemapFrom(sid, found) ==
    LET able == AutoDownloadable(IntArg(sid))
        sdir == join(auto_download_options.subjects_path, StrOfNat(sid))
    IN  IF ~found.none THEN FilemapBuilt(sid, found.v, found.dirs)
        ELSE IF ~auto_download_options.enabled
        THEN FilemapRaised("ValueError:Could not find HCP subject", found.dirs)
        ELSE IF able.err # "none" THEN FilemapRaised(able.err, found.dirs)
        ELSE IF ~able.v
        THEN FilemapRaised("ValueError:Could not find HCP subject", found.dirs)
        ELSE FilemapBuilt(sid, sdir, IF isdir(sdir) THEN found.dirs
                                     ELSE makedirs_str(found.dirs, sdir))

\* the branch of subject_filemap for a string: found is
\* sid if os.path.isdir(sid) else find_subject_path(sid)
FilemapOfStr(found) ==
    IF found.err # "none" THEN FilemapRaised(found.err, found.dirs)
    ELSE IF found.none
    THEN \* sdir.split of None
         FilemapRaised("AttributeError", found.dirs)
    ELSE IF IntOfStr(LastComponent(found.v, OsSep)).err # "none"
    THEN FilemapRaised("ValueError", found.dirs)
    ELSE FilemapFrom(IntOfStr(LastComponent(found.v, OsSep)).v, found)

\* the branch of subject_filemap for an integer
FilemapOfInt(sid, found) ==
    IF found.err # "none" THEN FilemapRaised(found.err, found.dirs)
    ELSE FilemapFrom(sid, found)

\* subject_filemap(sid, subject_path) for any integer or string
SubjectFilemap(a, subject_path) ==
    IF a.t = "int"
    THEN FilemapOfInt(a.n, IF subject_path = NoPath THEN FindSubjectPath(a)
                           ELSE PthRet(expanduser(join(subject_path, StrOf(a))), fsDirs))
    ELSE IF a.t = "str"
    THEN FilemapOfStr(IF isdir(expanduser(a.s)) THEN PthRet(expanduser(a.s), fsDirs)
                      ELSE FindSubjectPath(StrArg(expanduser(a.s))))
    ELSE FilemapRaised("ValueError:Cannot understand HCP subject ID", fsDirs)

\* subject_paths()
subject_paths == subjects_dirs

\* clear_subject_paths(subpaths): the name _subjects_dirs is assigned in the
\* function without a global statement, so it is a local name there and
\* `sd = _subjects_dirs` reads it before it is bound
clear_subject_paths(list) == [err |-> "UnboundLocalError", v |-> <<>>, list |-> list]

\* path.split(':')
RECURSIVE SplitColon(_)
SplitColon(str) ==
    IF str = <<>> THEN << <<>> >>
    ELSE IF Head(str) = ":" THEN << <<>> >> \o SplitColon(Tail(str))
    ELSE << <<Head(str)>> \o Head(SplitColon(Tail(str))) >> \o Tail(SplitColon(Tail(str)))

NonEmptyPart(x) == Len(x) > 0

\* reversed(q)
Reversed(q) == [i \in DOMAIN q |-> q[Len(q) + 1 - i]]

\* sd.insert(index, x) of a Python list
Insert(list, index, x) ==
    LET n == Len(list)
        k == IF index < 0 THEN (IF n + index < 0 THEN 0 ELSE n + index)
             ELSE IF index > n THEN n ELSE index
    IN  SubSeq(list, 1, k) \o <<x>> \o SubSeq(list, k + 1, n)

\* an insertion that does not ask whether the path is a directory
AddOneUnchecked(list, path, index) ==
    IF expanduser(path) \in Range(list) THEN [ok |-> TRUE, list |-> list]
    ELSE IF ~index.given THEN [ok |-> TRUE, list |-> Append(list, expanduser(path))]
    ELSE [ok |-> TRUE, list |-> Insert(list, index.k, expanduser(path))]

\* an insertion that does not ask whether the path is in the list
AddOneAgain(list, path, index) ==
    IF ~isdir(expanduser(path)) THEN [ok |-> FALSE, list |-> list]
    ELSE IF ~index.given THEN [ok |-> TRUE, list |-> Append(list, expanduser(path))]
    ELSE [ok |-> TRUE, list |-> Insert(list, index.k, expanduser(path))]

\* add_subject_path for an argument that splits into at most one part; the
\* path tested and inserted is the argument itself
AddOne(list, path, index) ==
    IF ~isdir(expanduser(path)) THEN [ok |-> FALSE, list |-> list]
    ELSE IF expanduser(path) \in Range(list) THEN [ok |-> TRUE, list |-> list]
    ELSE IF ~index.given THEN [ok |-> TRUE, list |-> Append(list, expanduser(path))]
    ELSE [ok |-> TRUE, list |-> Insert(list, index.k, expanduser(path))]

RECURSIVE add_subject_path(_, _, _)

\* tests = [add_subject_path(p, index=index) for p in ps], and all(tests)
RECURSIVE AddEach(_, _, _, _)
AddEach(list, ps, index, tests) ==
    IF ps = <<>> THEN [ok |-> tests, list |-> list]
    ELSE AddEach(add_subject_path(list, Head(ps), index).list, Tail(ps), index,
                 tests /\ add_subject_path(list, Head(ps), index).ok)

\* add_subject_path(path, index) over the list of search paths
add_subject_path(list, path, index) ==
    IF Len(SelectSeq(SplitColon(path), NonEmptyPart)) > 1
    THEN AddEach(list, Reversed(SelectSeq(SplitColon(path), NonEmptyPart)), index, TRUE)
    ELSE AddOne(list, path, index)

----------------------------------------------------------------------------
(* The search paths as a state machine: calls of add_subject_path,        *)
(* clear_subject_paths, find_subject_path and subject_filemap, over a     *)
(* file system with two directories of subjects, /a and /b, each of which *)
(* may hold the subject 100307, and a directory /d for the subjects that  *)
(* are downloaded.                                                        *)

MaxPathCalls == 2

DirA == <<"/", "a">>

DirB == <<"/", "b">>

DirD == <<"/", "d">>

\* a path that is no directory
DirN == <<"/", "n">>

Id1 == <<"1", "0", "0", "3", "0", "7">>

SubA == join(DirA, Id1)

SubB == join(DirB, Id1)

PthDirSets == {{DirA, DirB, DirD} \cup S : S \in SUBSET {SubA, SubB}}

\* the lists of search paths the calls start from
PthLists == {<<>>, <<DirA>>, <<DirA, DirB>>, <<DirB, DirA>>}

PthOptions ==
    {NoAutoDownload,
     [enabled |-> TRUE, subjects_path |-> DirD, overwrite |-> FALSE,
      release |-> "HCP_1200", database |-> "hcp-openaccess", subject_ids |-> {100307}]}

\* the subjects asked for: the subject of the directories as a number, as
\* its digits and as the path of its directory, a subject that is nowhere,
\* a number and a name that are no subject ids
PthArgs ==
    {IntArg(100307), IntArg(100408), IntArg(5), StrArg(Id1), StrArg(SubA),
     StrArg(<<"x">>)}

PthAddPaths ==
    {DirA, DirB, DirN, DirA \o <<":">> \o DirB, DirA \o <<":">> \o DirN,
     DirB \o <<":">>}

PthIndexes == {[given |-> FALSE, k |-> 0]} \cup {[given |-> TRUE, k |-> k] : k \in 0 .. 1}

PthInit ==
    /\ fsDirs \in PthDirSets
    /\ subjects_dirs \in PthLists
    /\ auto_download_options \in PthOptions
    /\ sa = NoSubject
    /\ PthIdle
    /\ AutoIdle
    /\ CredIdle
    /\ NoThreads
    /\ fsFiles = EmptyDict
    /\ bucket = EmptyDict
    /\ roiAtlases = EmptyDict
    /\ sphereAtlases = [lh |-> EmptyDict, rh |-> EmptyDict]
    /\ loadCalls = EmptyDict
    /\ fetches = EmptyDict
    /\ remoteChecks = 0
    /\ reads = EmptyDict
    /\ accesses = 0
    /\ decodes = EmptyDict
    /\ roiLoads = EmptyDict
    /\ opens = 0
    /\ pathArg = NoPath
    /\ maskOut = Fail("idle")
    /\ DlIdle
    /\ sidArg = OtherArg
    /\ sidResult = Idle
    /\ OrgIdle
    /\ SplIdle

\* what no call on the search paths touches
PthFrame ==
    UNCHANGED <<fsFiles, bucket, roiAtlases, sphereAtlases, loadCalls, fetches,
                remoteChecks, reads, accesses, decodes, roiLoads, opens, pathArg,
                maskOut, fetchedFrom, pulledFrom, dlOrder, dlArgs, dlOut, dlBefore,
                dlCalls, dlLoads, autoVars, credVars, threads,
                sidArg, sidResult, orgVars, splVars>>

\* the state add_subject_path leaves, r being what it gave
Added(r) ==
    /\ subjects_dirs' = r.list
    /\ pthOut' = [err |-> "none", none |-> FALSE, ok |-> r.ok, v |-> <<>>]

\* add_subject_path(path) or add_subject_path(path, index)
AddPath ==
    /\ pthCalls < MaxPathCalls
    /\ \E path \in PthAddPaths, index \in PthIndexes :
          /\ Added(add_subject_path(subjects_dirs, path, index))
          /\ pthCall' = [op |-> "add_subject_path", arg |-> OtherArg, path |-> path,
                         index |-> index]
    /\ pthCalls' = pthCalls + 1
    /\ UNCHANGED <<fsDirs, auto_download_options, sa>>
    /\ PthFrame

\* the state clear_subject_paths leaves, r being what it gave
Cleared(r) ==
    /\ subjects_dirs' = r.list
    /\ pthOut' = [err |-> r.err, none |-> FALSE, ok |-> FALSE, v |-> r.v]

\* clear_subject_paths(subpaths), for any argument
ClearPaths ==
    /\ pthCalls < MaxPathCalls
    /\ Cleared(clear_subject_paths(subjects_dirs))
    /\ pthCall' = [NoPathCall EXCEPT !.op = "clear_subject_paths"]
    /\ pthCalls' = pthCalls + 1
    /\ UNCHANGED <<fsDirs, auto_download_options, sa>>
    /\ PthFrame

\* the state find_subject_path leaves, r being what it gave
Found(r) ==
    /\ fsDirs' = r.dirs
    /\ pthOut' = [err |-> r.err, none |-> r.none, ok |-> FALSE, v |-> r.v]

\* find_subject_path(sid)
FindPath ==
    /\ pthCalls < MaxPathCalls
    /\ \E a \in PthArgs :
          /\ Found(FindSubjectPath(a))
          /\ pthCall' = [NoPathCall EXCEPT !.op = "find_subject_path", !.arg = a]
    /\ pthCalls' = pthCalls + 1
    /\ UNCHANGED <<subjects_dirs, auto_download_options, sa>>
    /\ PthFrame

\* the state subject_filemap leaves, r being what it gave
Opened(r) ==
    /\ fsDirs' = r.dirs
    /\ sa' = r.sa
    /\ pthOut' = [err |-> r.err, none |-> FALSE, ok |-> FALSE, v |-> r.sa.sdir]

\* subject_filemap(sid) or subject_filemap(sid, subject_path)
OpenSubject ==
    /\ pthCalls < MaxPathCalls
    /\ \E a \in PthArgs, subject_path \in {NoPath, DirB} :
          /\ Opened(SubjectFilemap(a, subject_path))
          /\ pthCall' = [NoPathCall EXCEPT !.op = "subject_filemap", !.arg = a,
                                           !.path = subject_path]
    /\ pthCalls' = pthCalls + 1
    /\ UNCHANGED <<subjects_dirs, auto_download_options>>
    /\ PthFrame

PthNext == AddPath \/ ClearPaths \/ FindPath \/ OpenSubject

SpecPaths == PthInit /\ [][PthNext]_vars

----------------------------------------------------------------------------
(* Claims about the filters *)

\* the data of the file map for the file rel of the subject opened
DatOf(rel) == Merge(subject_structure.fmap[rel], sa.id)

\* what the loader of the file rel, which is the file f of the subject
\* opened, left before the filter step: for the caching loaders the entry
\* of their cache, else what the file decodes to
LoaderGave(rel, f) ==
    IF DatOf(rel).load = "_load_fsLR_atlasroi" THEN roiAtlases[rel[Len(rel)][4]]
    ELSE IF DatOf(rel).load = "_load_atlas_sphere"
    THEN sphereAtlases[SphereHemi(rel[Len(rel)][2])][<<rel[Len(rel)][4], rel[Len(rel)][3]>>]
    ELSE Decode(fsFiles[f], f, DatOf(rel)).v

\* the value kept for the file f of the key rel, if one is kept, is the
\* filter of the key applied once to what its loader gave
KeptIsFiltered(rel, f) ==
    Has(sa.fls, f) => Ok(sa.fls[f]) = ApplyFilt(DatOf(rel).filt, LoaderGave(rel, f))

\* the two masks as their files hold them, squeezed and paired, and the
\* sphere as its file holds it
MasksOnDisk ==
    Pair(Squeeze(SaContent(AtlasLFile, None)), Squeeze(SaContent(AtlasRFile, None)))

SphereOnDisk == SaContent(SphereFile, None)

\* the caches of the loaders hold what the files hold, unfiltered
CachesUnfiltered ==
    /\ \A atl \in DOMAIN roiAtlases : atl = "32k_fs_LR" /\ roiAtlases[atl] = MasksOnDisk
    /\ \A h \in DOMAIN sphereAtlases : \A addr \in DOMAIN sphereAtlases[h] :
          sphereAtlases[h][addr] = SphereOnDisk

\* C21: the value the lazy map of the files keeps for a file is the
\* filter of its entry applied once to what its loader gave (for a caching
\* loader, to the unfiltered entry of the cache); an entry without a filter
\* keeps what the loader gave.
C21_FilterAppliedOnce ==
    /\ CachesUnfiltered
    /\ sa.status = "built" =>
          \A rel \in SaFiles : KeptIsFiltered(rel, sa.sdir \o Format(rel, sa.id))

\* the subject opened holds the value of a filtered file read by the
\* default loader and the value of a filtered file read by a caching loader
C21_Witness ==
    /\ sa.status = "built"
    /\ Has(sa.fls, sa.sdir \o Format(CurvFile, sa.id))
    /\ Has(sa.fls, sa.sdir \o Format(AtlasRFile, sa.id))
    /\ DatOf(CurvFile).filt = "-c"
    /\ DatOf(AtlasRFile).filt = "x[1].astype(bool)"
    /\ sa.fls[sa.sdir \o Format(CurvFile, sa.id)]
          # LoaderGave(CurvFile, sa.sdir \o Format(CurvFile, sa.id))

----------------------------------------------------------------------------
(* The reads that fail: subjects are opened and their leaves read over    *)
(* file systems that hold every file of the subject or lack one, with a   *)
(* combined file the masks split or cannot split, and over an empty disk  *)
(* with a bucket that lacks the right mask.                               *)

FailWorlds ==
    {[auto |-> FALSE, ids |-> {}, present |-> SaFiles \ S, sdir |-> TRUE, remote |-> {}]
        : S \in {{}} \cup {{f} : f \in SaFiles}}
    \cup {[auto |-> TRUE, ids |-> {s.id : s \in Subjects}, present |-> {}, sdir |-> TRUE,
           remote |-> SaFiles \ {AtlasRFile}]}

FailInit ==
    /\ \E wd \in FailWorlds,
          cifti \in {Arr2(<< <<11, 12>>, <<21, 22>>, <<31, 32>> >>),
                     Arr2(<< <<11, 12>>, <<21, 22>> >>)} :
          SaInitFor(HomeSubject.id, cifti, wd)
    /\ subjects_dirs = <<SubjectsRoot>>
    /\ roiAtlases = EmptyDict
    /\ sphereAtlases = [lh |-> EmptyDict, rh |-> EmptyDict]
    /\ sa = NoSubject
    /\ loadCalls = EmptyDict
    /\ fetches = EmptyDict
    /\ remoteChecks = 0
    /\ reads = EmptyDict
    /\ accesses = 0
    /\ decodes = EmptyDict
    /\ roiLoads = EmptyDict
    /\ opens = 0
    /\ pathArg = NoPath
    /\ maskOut = Fail("idle")
    /\ PthIdle
    /\ AutoIdle
    /\ CredIdle
    /\ NoThreads
    /\ DlIdle
    /\ sidArg = OtherArg
    /\ sidResult = Idle
    /\ OrgIdle
    /\ SplIdle

FailNext == Construct \/ Access

SpecFailures == FailInit /\ [][FailNext]_vars

----------------------------------------------------------------------------
(* Claims about failures *)

\* the step is a read of leaf l that raised
FailedRead(l) ==
    /\ accesses' = accesses + 1
    /\ ListOf(reads', l) # ListOf(reads, l)
    /\ Last(reads'[l]).err # "none"

\* what a read of leaf l would give in the state
WouldGive(l) == LeafGet(World, sa, l).res

\* what a read of leaf l would give in the state the step leads to (a read
\* changes neither the bucket nor the options nor the search paths)
WouldGiveNext(l) == LeafGet(World', sa', l).res

\* the values the SubjectAccess and the caches of the loaders keep, and the
\* files, stay as they are
KeptValues ==
    /\ \A l \in DOMAIN sa.leaves : Has(sa'.leaves, l) /\ sa'.leaves[l] = sa.leaves[l]
    /\ \A f \in DOMAIN sa.fls : Has(sa'.fls, f) /\ sa'.fls[f] = sa.fls[f]
    /\ \A f \in DOMAIN fsFiles : Has(fsFiles', f) /\ fsFiles'[f] = fsFiles[f]
    /\ MasksKept
    /\ \A h \in DOMAIN sphereAtlases : \A addr \in DOMAIN sphereAtlases[h] :
          Has(sphereAtlases'[h], addr) /\ sphereAtlases'[h][addr] = sphereAtlases[h][addr]
    /\ sa'.id = sa.id /\ sa'.sdir = sa.sdir /\ sa'.status = sa.status

\* the combined-hemisphere file of the subject, if the leaf is read from
\* it, holds an array the masks of the model can split
OwnFileSplits(l) ==
    IsCiftiLeaf(l) =>
        fsFiles'[LeafPath(sa, l)] # Arr2(<< <<11, 12>>, <<21, 22>> >>)

\* a read that would have returned before returns the same after
StillGives(before, after) == before.err = "none" => after = before

\* C22 as stated: after a read of a leaf raised, every other leaf of the
\* subject whose own file is there loads, and the values kept are kept.
C22_SiblingWithFileLoads ==
    [][\A l \in SaLeaves : FailedRead(l) =>
          /\ KeptValues
          /\ \A l2 \in SaLeaves \ {l} :
                (Has(fsFiles', LeafPath(sa, l2)) /\ OwnFileSplits(l2))
                    => WouldGiveNext(l2).err = "none"]_vars

\* C22: a read of a leaf that raised leaves every value the SubjectAccess
\* and the caches keep, and every file, as it was; every other leaf that
\* would have loaded before the failed read loads after it, with the same
\* value.
C22_FailureLeavesSiblings ==
    [][\A l \in SaLeaves : FailedRead(l) =>
          /\ KeptValues
          /\ \A l2 \in SaLeaves \ {l} : StillGives(WouldGive(l2), WouldGiveNext(l2))]_vars

\* a read of a leaf raised after another leaf was read and kept, and a
\* third leaf, not read yet, loads
C22_Witness ==
    /\ sa.status = "built"
    /\ \E l \in DOMAIN reads : Last(reads[l]).err # "none"
    /\ \E l \in DOMAIN sa.leaves : OkReads(l) # {}
    /\ \E l \in SaLeaves \ DOMAIN reads : WouldGive(l).err = "none"

----------------------------------------------------------------------------
(* Claims about the resolution of a subject *)

\* the step is a call of the operation op on the search paths
PathCall(op) == pthCalls' = pthCalls + 1 /\ pthCall'.op = op

\* the argument is a subject id, as a number or as its digits, that has no
\* directory of its own and none in a search path, and that cannot be
\* downloaded
Unresolvable(a) ==
    /\ to_subject_id(a).err = "none"
    /\ ~isdir(StrOf(a))
    /\ \A i \in DOMAIN subjects_dirs : ~isdir(join(subjects_dirs[i], StrOf(a)))
    /\ ~(auto_download_options.enabled
           /\ to_subject_id(a).v \in auto_download_options.subject_ids)

\* C23 as stated: subject_filemap(sid), for a subject given as a number or
\* as a string that cannot be resolved, raises the not-found error 'Could
\* not find HCP subject'.
C23_UnresolvedIsNotFound ==
    [][(PathCall("subject_filemap") /\ pthCall'.path = NoPath
           /\ Unresolvable(pthCall'.arg))
          => pthOut'.err = "ValueError:Could not find HCP subject"]_vars

\* C24 as stated: subject_filemap(sid, subject_path), for a subject id given
\* as a number or as its digits, builds the SubjectAccess over the directory
\* subject_path/<sid>, whatever the search paths hold.
C24_GivenPathIsUsed ==
    [][(PathCall("subject_filemap") /\ pthCall'.path # NoPath
           /\ to_subject_id(pthCall'.arg).err = "none")
          => /\ sa'.status = "built"
             /\ sa'.sdir = join(pthCall'.path, StrOf(pthCall'.arg))
             /\ sa'.id = to_subject_id(pthCall'.arg).v]_vars

\* the search paths that hold a directory named as the subject asked for
HoldSubject(a) == {i \in DOMAIN subjects_dirs : isdir(join(subjects_dirs[i], StrOf(a)))}

\* C25: find_subject_path(sid), for a sid that is no directory itself and
\* that some search path holds a directory of, returns the directory of
\* that name under the first such search path of the list, and makes no
\* directory.
C25_FirstSearchPathWins ==
    [][(PathCall("find_subject_path") /\ ~isdir(StrOf(pthCall'.arg))
           /\ HoldSubject(pthCall'.arg) # {})
          => /\ pthOut'.err = "none" /\ ~pthOut'.none
             /\ fsDirs' = fsDirs
             /\ \E i \in HoldSubject(pthCall'.arg) :
                   /\ \A j \in HoldSubject(pthCall'.arg) : i <= j
                   /\ pthOut'.v = join(subjects_dirs[i], StrOf(pthCall'.arg))]_vars

\* two search paths hold the subject and the call returned its directory
\* under the first of them, which is not the first directory by name
C25_Witness ==
    /\ pthCall.op = "find_subject_path"
    /\ Cardinality(HoldSubject(pthCall.arg)) = 2
    /\ subjects_dirs = <<DirB, DirA>>
    /\ pthOut.v = SubB

\* C26 as stated: find_subject_path(sid), for any argument that is no
\* directory, that no search path holds a directory of and that cannot be
\* downloaded, returns None, raises nothing and makes no directory.
C26_NotFoundIsNone ==
    [][(PathCall("find_subject_path") /\ ~isdir(StrOf(pthCall'.arg))
           /\ HoldSubject(pthCall'.arg) = {}
           /\ ~(/\ auto_download_options.enabled
                /\ to_subject_id(pthCall'.arg).err = "none"
                /\ to_subject_id(pthCall'.arg).v \in auto_download_options.subject_ids))
          => /\ pthOut'.err = "none"
             /\ pthOut'.none
             /\ fsDirs' = fsDirs]_vars

----------------------------------------------------------------------------
(* Claims about the list of search paths *)

\* C27 as stated: clear_subject_paths returns the list of search paths as
\* it was and leaves subject_paths() empty.
C27_ClearReturnsPrevious ==
    [][PathCall("clear_subject_paths")
          => /\ pthOut'.err = "none"
             /\ pthOut'.v = subjects_dirs
             /\ subject_paths' = <<>>]_vars

\* the step is a call of add_subject_path with one path, a directory that
\* is not yet in the list
AddsNew ==
    /\ PathCall("add_subject_path")
    /\ ":" \notin Range(pthCall'.path)
    /\ isdir(pthCall'.path)
    /\ pthCall'.path \notin Range(subjects_dirs)

\* C28 as stated: add_subject_path(path) puts the new directory at the
\* front of the list of search paths, before all the paths added earlier;
\* add_subject_path(path, k), for k within the list, puts it at index k.
C28_DefaultInsertsAtFront ==
    [][AddsNew =>
          /\ ~pthCall'.index.given => subjects_dirs' = <<pthCall'.path>> \o subjects_dirs
          /\ (pthCall'.index.given /\ pthCall'.index.k <= Len(subjects_dirs))
                => subjects_dirs' = SubSeq(subjects_dirs, 1, pthCall'.index.k)
                                      \o <<pthCall'.path>>
                                      \o SubSeq(subjects_dirs, pthCall'.index.k + 1,
                                                Len(subjects_dirs))]_vars

\* the parts of a colon-separated argument that are not empty
PartsOf(path) == Range(SelectSeq(SplitColon(path), NonEmptyPart))

\* C29: add_subject_path with a single path that is no directory returns
\* False and leaves the list of search paths as it was; with a
\* colon-separated argument it returns True only if every part of the
\* argument is in the list afterwards.
C29_AddReportsFailure ==
    [][PathCall("add_subject_path") =>
          /\ (":" \notin Range(pthCall'.path) /\ ~isdir(expanduser(pthCall'.path)))
                => ~pthOut'.ok /\ subjects_dirs' = subjects_dirs
          /\ (":" \in Range(pthCall'.path) /\ pthOut'.ok)
                => \A part \in PartsOf(pthCall'.path) :
                      isdir(part) /\ part \in Range(subjects_dirs')]_vars

\* the first call, with two directories separated by a colon, returned
\* True and the list holds those two
C29_Witness ==
    /\ pthCall.op = "add_subject_path"
    /\ pthCall.path = DirA \o <<":">> \o DirB
    /\ pthOut.ok
    /\ pthCalls = 1
    /\ Len(subjects_dirs) = 2
    /\ PartsOf(pthCall.path) = Range(subjects_dirs)

----------------------------------------------------------------------------
(* The switch of the automatic download: auto_download(True, ...) and     *)
(* auto_download(False) between the openings of subjects and the reads of *)
(* their leaves.  The module starts with _auto_download_options = None    *)
(* (the environment does not set HCP_AUTO_DOWNLOAD); s3fs and the         *)
(* credentials are there, and the S3 file system the options hold is the  *)
(* bucket.                                                                *)

MaxToggles == 2

\* a call with status False that leaves the options as they are
auto_download_stay(status, subjects_path, overwrite, release, database) ==
    LET found == {i \in DOMAIN subjects_dirs : subjects_dirs[i] \in fsDirs}
        listed == {k.sid : k \in {b \in DOMAIN bucket : b.db = database /\ b.rl = release}}
    IN  IF ~status THEN [err |-> "none", opts |-> auto_download_options]
        ELSE IF subjects_path = NoPath /\ found = {}
        THEN [err |-> "ValueError:No subjects path given or found",
              opts |-> auto_download_options]
        ELSE IF listed = {}
        THEN [err |-> "ValueError:database/release not found",
              opts |-> auto_download_options]
        ELSE [err |-> "none",
              opts |-> [enabled |-> TRUE,
                        subjects_path |-> IF subjects_path = NoPath
                                          THEN subjects_dirs[Min(found)]
                                          ELSE subjects_path,
                        overwrite |-> overwrite, release |-> release,
                        database |-> database,
                        subject_ids |-> {n \in listed : n >= LowId /\ n <= HighId}]]

\* auto_download(status, subjects_path=..., overwrite=..., release=...,
\* database=...): opts is what _auto_download_options is after the call.
\* The names fs.ls gives under database/release are the subjects of the
\* bucket; those of six digits that do not start with 0 are the ids kept
auto_download(status, subjects_path, overwrite, release, database) ==
    LET found == {i \in DOMAIN subjects_dirs : subjects_dirs[i] \in fsDirs}
        listed == {k.sid : k \in {b \in DOMAIN bucket : b.db = database /\ b.rl = release}}
    IN  IF ~status THEN [err |-> "none", opts |-> NoAutoDownload]
        ELSE IF subjects_path = NoPath /\ found = {}
        THEN [err |-> "ValueError:No subjects path given or found",
              opts |-> auto_download_options]
        ELSE IF listed = {}
        THEN [err |-> "ValueError:database/release not found",
              opts |-> auto_download_options]
        ELSE [err |-> "none",
              opts |-> [enabled |-> TRUE,
                        subjects_path |-> IF subjects_path = NoPath
                                          THEN subjects_dirs[Min(found)]
                                          ELSE subjects_path,
                        overwrite |-> overwrite, release |-> release,
                        database |-> database,
                        subject_ids |-> {n \in listed : n >= LowId /\ n <= HighId}]]

\* the file systems and buckets the switch is used over: a bucket that
\* holds the subject under a full disk, an empty subject directory or none,
\* and an empty bucket under an empty subject directory
AutoWorlds ==
    {[auto |-> FALSE, ids |-> {}, present |-> p, sdir |-> d, remote |-> SaFiles]
        : p \in {SaFiles, {}}, d \in BOOLEAN}
    \cup {[auto |-> FALSE, ids |-> {}, present |-> {}, sdir |-> TRUE, remote |-> {}]}

AutoInit ==
    /\ \E wd \in AutoWorlds :
          SaInitFor(HomeSubject.id, Arr2(<< <<11, 12>>, <<21, 22>>, <<31, 32>> >>), wd)
    /\ subjects_dirs = <<SubjectsRoot>>
    /\ roiAtlases = EmptyDict
    /\ sphereAtlases = [lh |-> EmptyDict, rh |-> EmptyDict]
    /\ sa = NoSubject
    /\ loadCalls = EmptyDict
    /\ fetches = EmptyDict
    /\ remoteChecks = 0
    /\ reads = EmptyDict
    /\ accesses = 0
    /\ decodes = EmptyDict
    /\ roiLoads = EmptyDict
    /\ opens = 0
    /\ pathArg = NoPath
    /\ maskOut = Fail("idle")
    /\ PthIdle
    /\ AutoIdle
    /\ CredIdle
    /\ NoThreads
    /\ DlIdle
    /\ sidArg = OtherArg
    /\ sidResult = Idle
    /\ OrgIdle
    /\ SplIdle

\* the state a call of auto_download leaves, r being what it gave
Switched(r) ==
    /\ auto_download_options' = r.opts
    /\ autoOut' = r.err

\* what a call of auto_download does not touch
AutoFrame ==
    UNCHANGED <<fsFiles, fsDirs, bucket, subjects_dirs, roiAtlases, sphereAtlases, sa,
                loadCalls, fetches, remoteChecks, reads, accesses, decodes, roiLoads,
                opens, pathArg, maskOut, fetchedFrom, pulledFrom, dlOrder, dlArgs, dlOut,
                dlBefore, dlCalls, dlLoads, pthVars, credVars, threads,
                sidArg, sidResult, orgVars, splVars>>

\* auto_download(True), auto_download(True, subjects_path=...) or
\* auto_download(True, release=...)
SwitchOn ==
    /\ autoCalls < MaxToggles
    /\ \E a \in {[subjects_path |-> NoPath, release |-> "HCP_1200"],
                  [subjects_path |-> SubjectsRoot, release |-> "HCP_1200"],
                  [subjects_path |-> NoPath, release |-> "HCP_900"]} :
          /\ Switched(auto_download(TRUE, a.subjects_path, FALSE, a.release,
                                    "hcp-openaccess"))
          /\ autoArgs' = [status |-> TRUE, subjects_path |-> a.subjects_path,
                          overwrite |-> FALSE, release |-> a.release,
                          database |-> "hcp-openaccess"]
    /\ autoCalls' = autoCalls + 1
    /\ AutoFrame

\* auto_download(False)
SwitchOff ==
    /\ autoCalls < MaxToggles
    /\ Switched(auto_download(FALSE, NoPath, FALSE, "HCP_1200", "hcp-openaccess"))
    /\ autoArgs' = [status |-> FALSE, subjects_path |-> NoPath, overwrite |-> FALSE,
                    release |-> "HCP_1200", database |-> "hcp-openaccess"]
    /\ autoCalls' = autoCalls + 1
    /\ AutoFrame

AutoNext == SwitchOn \/ SwitchOff \/ Construct \/ Access

SpecAuto == AutoInit /\ [][AutoNext]_vars

----------------------------------------------------------------------------
(* Claims about the switch of the automatic download *)

\* the step is a call of auto_download
AutoCall == autoCalls' = autoCalls + 1

\* the step opens a subject or reads a leaf
OpensOrReads == opens' = opens + 1 \/ accesses' = accesses + 1

\* C30: the options of the automatic download are absent until
\* auto_download is called and are either absent or all there; a call
\* auto_download(True, ...) that returns sets the subjects path, overwrite,
\* release, database and the subject ids listed in the bucket, one that
\* raises leaves the options as they were, and auto_download(False) leaves
\* none; while the options are absent, the opening of a subject and the
\* read of a leaf ask the bucket nothing, copy no file and make no
\* directory.
C30_AutoDownloadToggledWhole ==
    /\ [](/\ autoCalls = 0 => auto_download_options = NoAutoDownload
          /\ ~auto_download_options.enabled => auto_download_options = NoAutoDownload)
    /\ [][AutoCall =>
             /\ (autoArgs'.status /\ autoOut' = "none") =>
                   /\ auto_download_options'.enabled
                   /\ auto_download_options'.subjects_path = SubjectsRoot
                   /\ auto_download_options'.overwrite = autoArgs'.overwrite
                   /\ auto_download_options'.release = autoArgs'.release
                   /\ auto_download_options'.database = autoArgs'.database
                   /\ auto_download_options'.subject_ids =
                         {k.sid : k \in {b \in DOMAIN bucket :
                                           /\ b.db = autoArgs'.database
                                           /\ b.rl = autoArgs'.release}}
             /\ (autoArgs'.status /\ autoOut' # "none") =>
                   auto_download_options' = auto_download_options
             /\ ~autoArgs'.status => auto_download_options' = NoAutoDownload]_vars
    /\ [][(OpensOrReads /\ ~auto_download_options.enabled) =>
             /\ remoteChecks' = remoteChecks
             /\ fetches' = fetches
             /\ fetchedFrom' = fetchedFrom
             /\ fsFiles' = fsFiles
             /\ fsDirs' = fsDirs]_vars

\* the automatic download was switched on and off again; a file was copied
\* from the bucket while it was on, and a read after it was switched off
\* found no file
C30_Witness ==
    /\ autoCalls = 2
    /\ ~autoArgs.status
    /\ auto_download_options = NoAutoDownload
    /\ fetches # EmptyDict
    /\ \E l \in DOMAIN reads : Last(reads[l]) = Fail("ValueError:File not found")

----------------------------------------------------------------------------
(* The credentials: to_credentials on a string, a mapping, a sequence or   *)
(* another value, over text files that hold a key and a secret, something  *)
(* else, or are not there.  Strings are sequences of one-character         *)
(* strings.                                                                *)

MaxCredLen == 3

\* fl.read(1024 * 8)
ReadMax == 8192

ReadUpTo(text, n) == SubSeq(text, 1, IF Len(text) < n THEN Len(text) ELSE n)

IsSpace(c) == c \in {" ", "\n", "\t"}

RECURSIVE lstrip(_)
lstrip(str) == IF str # <<>> /\ IsSpace(Head(str)) THEN lstrip(Tail(str)) ELSE str

RECURSIVE rstrip(_)
rstrip(str) ==
    IF str # <<>> /\ IsSpace(Last(str)) THEN rstrip(SubSeq(str, 1, Len(str) - 1)) ELSE str

\* str.strip()
strip(str) == rstrip(lstrip(str))

CredRet(v) == [err |-> "none", v |-> v]

CredRaise(e) == [err |-> e, v |-> <<>>]

\* the split of the text read, given as an argument
TupleOfTwo(dat) ==
    IF Len(dat) # 2 THEN CredRaise("ValueError:not a credentials file") ELSE CredRet(dat)

\* load_credentials(flnm) over the files of disk
load_credentials(disk, flnm) ==
    IF flnm \notin DOMAIN disk THEN CredRaise("IOError")
    ELSE TupleOfTwo(SplitColon(strip(ReadUpTo(disk[flnm], ReadMax))))

\* the string branch of to_credentials, r being what load_credentials gave
LoadedOrSplit(r, str) == IF r.err = "none" THEN r ELSE CredRet(SplitColon(strip(str)))

\* pimms.is_vector(arg) of a tuple or list
is_vector(a) == a.t = "vec"

\* to_credentials(arg)
to_credentials(disk, a) ==
    IF a.t = "str" THEN LoadedOrSplit(load_credentials(disk, a.s), a.s)
    ELSE IF a.t = "map" /\ "key" \in a.keys /\ "secret" \in a.keys
    THEN CredRet(<<a.key, a.secret>>)
    ELSE IF is_vector(a) /\ Len(a.items) = 2 /\ (\A i \in DOMAIN a.items : a.items[i].str)
    THEN CredRet([i \in DOMAIN a.items |-> a.items[i].s])
    ELSE CredRaise("ValueError:given argument cannot be coerced to credentials")

CredStr(str) == [NoCredArg EXCEPT !.t = "str", !.s = str]

CredMap(keys, key, secret) ==
    [NoCredArg EXCEPT !.t = "map", !.keys = keys, !.key = key, !.secret = secret]

CredVec(items) == [NoCredArg EXCEPT !.t = "vec", !.items = items]

\* the strings of at most n characters over a letter, the colon and a blank
RECURSIVE CredStrings(_)
CredStrings(n) ==
    IF n = 0 THEN {<<>>}
    ELSE CredStrings(n - 1)
            \cup {Append(str, c) : str \in {x \in CredStrings(n - 1) : Len(x) = n - 1},
                                   c \in {"k", ":", " "}}

\* the items of a sequence: strings and numbers
CredItems == {[str |-> TRUE, s |-> <<"k">>], [str |-> FALSE, s |-> <<>>]}

CredArgs ==
    {CredStr(str) : str \in CredStrings(MaxCredLen)}
        \cup {CredMap(keys, <<"k">>, <<"s">>) : keys \in SUBSET {"key", "secret", "other"}}
        \cup {CredVec(items) : items \in UNION {[1 .. n -> CredItems] : n \in 0 .. 3}}
        \cup {NoCredArg}

\* the file named k holds a key and a secret on one line, a key alone,
\* three fields or nothing, or is not there
CredDisks ==
    {<<>>} \cup {(<<"k">> :> text) : text \in {<<"k", ":", "s", "\n">>, <<"k", "\n">>,
                                                <<"k", ":", "s", ":", "t">>, <<>>}}

CredInit ==
    /\ credArg \in CredArgs
    /\ credDisk \in CredDisks
    /\ s3fs = TRUE
    /\ credOut = CredNoOut
    /\ fsDirs = {}
    /\ sidArg = OtherArg
    /\ sidResult = Idle
    /\ NoThreads
    /\ OrgIdle
    /\ SplIdle
    /\ fsFiles = EmptyDict
    /\ bucket = EmptyDict
    /\ auto_download_options = NoAutoDownload
    /\ subjects_dirs = <<>>
    /\ roiAtlases = EmptyDict
    /\ sphereAtlases = [lh |-> EmptyDict, rh |-> EmptyDict]
    /\ sa = NoSubject
    /\ loadCalls = EmptyDict
    /\ fetches = EmptyDict
    /\ remoteChecks = 0
    /\ reads = EmptyDict
    /\ accesses = 0
    /\ decodes = EmptyDict
    /\ roiLoads = EmptyDict
    /\ opens = 0
    /\ pathArg = NoPath
    /\ maskOut = Fail("idle")
    /\ PthIdle
    /\ AutoIdle
    /\ DlIdle

\* what a call of to_credentials does not touch
CredFrame ==
    UNCHANGED <<fsDirs, sidArg, sidResult, orgVars, splVars, opens, pathArg, maskOut,
                fetchedFrom, pulledFrom, dlOrder, dlArgs, dlOut, dlBefore, dlCalls, dlLoads,
                fsFiles, bucket, auto_download_options, subjects_dirs, roiAtlases,
                sphereAtlases, sa, loadCalls, fetches, remoteChecks, reads, accesses,
                decodes, roiLoads, pthVars, autoVars, threads, credDisk, s3fs>>

CallToCredentials ==
    /\ credOut = CredNoOut
    /\ credOut' = to_credentials(credDisk, credArg)
    /\ credArg' = credArg
    /\ CredFrame

\* the caller goes on to its next argument
NextCredArg ==
    /\ credOut # CredNoOut
    /\ credArg' \in CredArgs
    /\ credOut' = CredNoOut
    /\ CredFrame

CredNext == CallToCredentials \/ NextCredArg

SpecCred == CredInit /\ [][CredNext]_vars

----------------------------------------------------------------------------
(* Claims about the credentials *)

\* C31: whatever the argument of to_credentials (a string, a mapping, a
\* sequence or another value), the call raises or returns a tuple of
\* exactly two elements.
C31_PairOrRaises ==
    credOut # CredNoOut => (credOut.err # "none" \/ Len(credOut.v) = 2)

----------------------------------------------------------------------------
(* The callers that run at once on the cache of the masks.  Nothing in    *)
(* _load_fsLR_atlasroi holds a lock, and the interpreter may switch from  *)
(* one caller to another between the test of the cache (253), the load of *)
(* the two files (263) and the store (265): each of the three is a step   *)
(* of its caller.  Every caller asks for the masks of the 32k mesh or of  *)
(* the native mesh of the home subject.                                   *)

NumCallers == 2

\* rois = tuple([...]) of what the two loads gave
RoisOf(rL, rR) ==
    IF rR.res.err # "none" THEN rR ELSE Out(rR.w, Ok(Pair(rL.res.v, rR.res.v)))

\* the load of the right mask after the left one, nothing kept
RoisAfterLeft(rL, fnmR, datR) ==
    IF rL.res.err # "none" THEN rL ELSE RoisOf(rL, _load(rL.w, fnmR, datR))

\* lines 254 to 263 of _load_fsLR_atlasroi: the two masks loaded
RoisLoad(w, filename, data) ==
    LET fdir == Dirname(filename)
        fparts == Last(filename)
        atl == fparts[Len(fparts) - 2]
        sid == data.id
        fnm == [h \in {"L", "R"} |->
                   Append(fdir, <<Str(sid), h, "atlasroi", atl, "shape", "gii">>)]
        tag == data.hemi.tags
        datL == IF data.cifti THEN AtlasDat(sid, tag[1])
                ELSE AtlasDat(sid, <<"lh">> \o Tail(tag[1]))
        datR == IF data.cifti THEN AtlasDat(sid, tag[2])
                ELSE AtlasDat(sid, <<"rh">> \o Tail(tag[1]))
    IN  IF ~data.hasCifti THEN Out(w, Fail("KeyError"))
        ELSE RoisAfterLeft(_load(w, fnm["L"], datL), fnm["R"], datR)

\* a store that keeps nothing
StoreRoisNever(cache, atl, rois) == cache

\* if atl != 'native': _load_fsLR_atlasroi.atlases[atl] = rois
StoreRois(cache, atl, rois) == IF CachesAtlas(atl) THEN Put(cache, atl, rois) ELSE cache

\* a caller before its call of _load_fsLR_atlasroi(filename, data)
RoiCaller(rel, data) ==
    [pc |-> "call",
     filename |-> SaSubjectDir(HomeSubject.id) \o Format(rel, HomeSubject.id),
     data |-> data, atl |-> Last(rel)[Len(Last(rel)) - 2], loaded |-> FALSE,
     rois |-> None, during |-> {}, out |-> Fail("idle")]

RoiCallers ==
    {RoiCaller(AtlasLFile, Merge(subject_structure.fmap[AtlasLFile], HomeSubject.id)),
     RoiCaller(NativeLFile,
               [AtlasDat(HomeSubject.id, LhNative) EXCEPT !.hasCifti = TRUE])}

\* the disks the callers run over: every file there, or the right mask of
\* the 32k mesh absent
RaceWorlds ==
    {[auto |-> FALSE, ids |-> {}, present |-> p, sdir |-> TRUE, remote |-> {}]
        : p \in {SaFiles, SaFiles \ {AtlasRFile}}}

RaceInit ==
    /\ \E wd \in RaceWorlds :
          SaInitFor(HomeSubject.id, Arr2(<< <<11, 12>>, <<21, 22>>, <<31, 32>> >>), wd)
    /\ threads \in [1 .. NumCallers -> RoiCallers]
    /\ subjects_dirs = <<SubjectsRoot>>
    /\ roiAtlases = EmptyDict
    /\ sphereAtlases = [lh |-> EmptyDict, rh |-> EmptyDict]
    /\ sa = NoSubject
    /\ loadCalls = EmptyDict
    /\ fetches = EmptyDict
    /\ remoteChecks = 0
    /\ reads = EmptyDict
    /\ accesses = 0
    /\ decodes = EmptyDict
    /\ roiLoads = EmptyDict
    /\ opens = 0
    /\ pathArg = NoPath
    /\ maskOut = Fail("idle")
    /\ PthIdle
    /\ AutoIdle
    /\ CredIdle
    /\ DlIdle
    /\ sidArg = OtherArg
    /\ sidResult = Idle
    /\ OrgIdle
    /\ SplIdle

\* what no step of a caller touches
RaceFrame ==
    UNCHANGED <<bucket, auto_download_options, subjects_dirs, opens, pathArg, maskOut, sa,
                loadCalls, reads, accesses, dlOrder, dlArgs, dlOut, dlBefore, dlCalls,
                dlLoads, pthVars, autoVars, credVars, sidArg, sidResult, orgVars, splVars>>

\* the callers in the middle of a load or before their store
InFlight == {u \in DOMAIN threads : threads[u].pc \in {"load", "store"}}

\* if atl in _load_fsLR_atlasroi.atlases: return _load_fsLR_atlasroi.atlases[atl]
RoiCheck(t) ==
    /\ threads[t].pc = "call"
    /\ threads' =
          IF Has(roiAtlases, threads[t].atl)
          THEN [threads EXCEPT ![t].pc = "done", ![t].out = Ok(roiAtlases[threads[t].atl])]
          ELSE [threads EXCEPT ![t].pc = "load", ![t].during = InFlight]
    /\ UNCHANGED <<fsFiles, fsDirs, roiAtlases, sphereAtlases, fetches, remoteChecks,
                   decodes, roiLoads, fetchedFrom, pulledFrom>>
    /\ RaceFrame

\* the state the load of the two masks leaves, r being what it gave
RoiLoaded(t, r) ==
    IF r.res.err # "none"
    THEN /\ SetWorld(r.w)
         /\ threads' = [threads EXCEPT ![t].pc = "done", ![t].out = r.res]
    ELSE /\ SetWorld([r.w EXCEPT !.rois = Put(@, threads[t].atl,
                                              Count(@, threads[t].atl) + 1)])
         /\ threads' = [threads EXCEPT ![t].pc = "store", ![t].loaded = TRUE,
                                       ![t].rois = r.res.v]

\* rois = tuple([_load(f, d) for (f,d) in zip(fnm, dat)])
RoiLoad(t) ==
    /\ threads[t].pc = "load"
    /\ RoiLoaded(t, RoisLoad(World, threads[t].filename, threads[t].data))
    /\ RaceFrame

\* the store in the cache and the return
RoiStore(t) ==
    /\ threads[t].pc = "store"
    /\ roiAtlases' = StoreRois(roiAtlases, threads[t].atl, threads[t].rois)
    /\ threads' = [threads EXCEPT ![t].pc = "done", ![t].out = Ok(threads[t].rois)]
    /\ UNCHANGED <<fsFiles, fsDirs, sphereAtlases, fetches, remoteChecks, decodes,
                   roiLoads, fetchedFrom, pulledFrom>>
    /\ RaceFrame

RaceNext == \E t \in DOMAIN threads : RoiCheck(t) \/ RoiLoad(t) \/ RoiStore(t)

SpecRace == RaceInit /\ [][RaceNext]_vars

----------------------------------------------------------------------------
(* Claims about the callers that run at once *)

\* the callers that loaded the two masks of atl
LoadedBy(atl) == {t \in DOMAIN threads : threads[t].atl = atl /\ threads[t].loaded}

\* C32: the masks of a mesh that is kept in the cache are loaded as many
\* times as there are callers that found the cache empty, and two callers
\* load them both only if one of them tested the cache while the other was
\* between its own test and its store: callers that come one after the
\* other load them at most once.
C32_LoadsTwiceOnlyInterleaved ==
    \A atl \in {threads[t].atl : t \in DOMAIN threads} :
        /\ Count(roiLoads, atl) = Cardinality(LoadedBy(atl))
        /\ CachesAtlas(atl) =>
              \A t, u \in LoadedBy(atl) :
                  t # u => (u \in threads[t].during \/ t \in threads[u].during)

\* two callers asked for the masks of the 32k mesh, both loaded them, and
\* both returned them
C32_Witness ==
    /\ Count(roiLoads, "32k_fs_LR") = 2
    /\ Has(roiAtlases, "32k_fs_LR")
    /\ \A t \in DOMAIN threads :
          /\ threads[t].atl = "32k_fs_LR"
          /\ threads[t].loaded
          /\ threads[t].pc = "done"
          /\ threads[t].out = Ok(roiAtlases["32k_fs_LR"])

----------------------------------------------------------------------------
(* The callers that run at once on the list of search paths.  Nothing in  *)
(* add_subject_path holds a lock: the tests of the path (56, 57), the     *)
(* read of _subjects_dirs into a new list (60, or 62 and 63) and the      *)
(* assignment of the new list to _subjects_dirs (60, 64) are steps of     *)
(* their caller, and the interpreter may switch callers between them.     *)
(* Every caller adds one path.                                            *)

\* a new list that is the old one
NewListSame(list, path, index) == list

\* _subjects_dirs.append(path), or sd = _subjects_dirs.tolist() and
\* sd.insert(index, path)
NewList(list, path, index) ==
    IF ~index.given THEN Append(list, path) ELSE Insert(list, index.k, path)

\* a caller before its call of add_subject_path(path, index)
AddCaller(path, index) ==
    [pc |-> "call", path |-> expanduser(path), index |-> index, sd |-> <<>>,
     wrote |-> FALSE, stale |-> {}, out |-> "idle"]

AddCallers ==
    {AddCaller(path, index) : path \in {DirA, DirB, DirN},
                              index \in {[given |-> FALSE, k |-> 0], [given |-> TRUE, k |-> 0]}}

LostInit ==
    /\ fsDirs = {DirA, DirB, DirD}
    /\ subjects_dirs \in {<<>>, <<DirD>>, <<DirA>>}
    /\ threads \in [1 .. NumCallers -> AddCallers]
    /\ auto_download_options = NoAutoDownload
    /\ sa = NoSubject
    /\ PthIdle
    /\ AutoIdle
    /\ CredIdle
    /\ fsFiles = EmptyDict
    /\ bucket = EmptyDict
    /\ roiAtlases = EmptyDict
    /\ sphereAtlases = [lh |-> EmptyDict, rh |-> EmptyDict]
    /\ loadCalls = EmptyDict
    /\ fetches = EmptyDict
    /\ remoteChecks = 0
    /\ reads = EmptyDict
    /\ accesses = 0
    /\ decodes = EmptyDict
    /\ roiLoads = EmptyDict
    /\ opens = 0
    /\ pathArg = NoPath
    /\ maskOut = Fail("idle")
    /\ DlIdle
    /\ sidArg = OtherArg
    /\ sidResult = Idle
    /\ OrgIdle
    /\ SplIdle

\* what no step of a caller of add_subject_path touches
LostFrame ==
    UNCHANGED <<fsDirs, fsFiles, bucket, auto_download_options, sa, roiAtlases,
                sphereAtlases, loadCalls, fetches, remoteChecks, reads, accesses, decodes,
                roiLoads, opens, pathArg, maskOut, fetchedFrom, pulledFrom, dlOrder, dlArgs,
                dlOut, dlBefore, dlCalls, dlLoads, pthVars, autoVars, credVars, sidArg,
                sidResult, orgVars, splVars>>

\* if not os.path.isdir(path): return False
\* if path in _subjects_dirs:  return True
AddTest(t) ==
    /\ threads[t].pc = "call"
    /\ threads' =
          IF ~isdir(threads[t].path) THEN [threads EXCEPT ![t].pc = "done", ![t].out = "False"]
          ELSE IF threads[t].path \in Range(subjects_dirs)
          THEN [threads EXCEPT ![t].pc = "done", ![t].out = "True"]
          ELSE [threads EXCEPT ![t].pc = "read"]
    /\ UNCHANGED subjects_dirs
    /\ LostFrame

\* the new list is built from _subjects_dirs as it is now
AddRead(t) ==
    /\ threads[t].pc = "read"
    /\ threads' = [threads EXCEPT ![t].pc = "write",
                                  ![t].sd = NewList(subjects_dirs, threads[t].path,
                                                    threads[t].index)]
    /\ UNCHANGED subjects_dirs
    /\ LostFrame

\* the callers that built their new list and did not assign it yet
HoldCopy == {u \in DOMAIN threads : threads[u].pc = "write"}

\* _subjects_dirs = <the new list>; return True
AddWrite(t) ==
    /\ threads[t].pc = "write"
    /\ subjects_dirs' = threads[t].sd
    /\ threads' = [threads EXCEPT ![t].pc = "done", ![t].out = "True", ![t].wrote = TRUE,
                                  ![t].stale = HoldCopy \ {t}]
    /\ LostFrame

LostNext == \E t \in DOMAIN threads : AddTest(t) \/ AddRead(t) \/ AddWrite(t)

SpecLost == LostInit /\ [][LostNext]_vars

\* C33: a directory that a call of add_subject_path has put in the list
\* and returned True for is still in the list, unless a caller that had
\* built its own new list before that assignment has assigned it since:
\* calls that come one after the other lose nothing, calls that interleave
\* can lose a directory.
C33_LostOnlyWhenInterleaved ==
    \A t \in DOMAIN threads :
        threads[t].wrote =>
            \/ threads[t].path \in Range(subjects_dirs)
            \/ \E u \in threads[t].stale : threads[u].wrote

\* two calls added two directories, both returned True, and the list
\* holds one of the two
C33_Witness ==
    \E t, u \in DOMAIN threads :
        /\ threads[t].path # threads[u].path
        /\ threads[t].wrote /\ threads[t].out = "True"
        /\ threads[u].wrote /\ threads[u].out = "True"
        /\ \A v \in DOMAIN threads : threads[v].pc = "done"
        /\ threads[t].path \notin Range(subjects_dirs)
        /\ threads[u].path \in Range(subjects_dirs)

----------------------------------------------------------------------------
(* Claims about the alternatives that share a file *)

\* the data _visit builds for the leaf u: what the file map would hold for
\* its file if u were the only leaf of the file
OwnData(u) ==
    [filt |-> u.filt, load |-> u.load, type |-> u.type, hemi |-> u.hemi,
     hasCifti |-> u.type # "image", cifti |-> u.type # "image" /\ u.hemi.tuple]

\* dat = dats[flnm]: the data _lookup_fl reads a file with, for every name
\* and tag the file is registered under
ViewData(flnm) == fmap[flnm]

\* C34: once the tables are returned, every leaf visited, alone at its
\* path or one of several alternatives, is read with its own data: its
\* own hemisphere tag, loader and filter.
C34_ViewUsesOwnData ==
    orgStatus = "returned" =>
        \A i \in DOMAIN orgVisited :
            ViewData(orgVisited[i].flnm) = OwnData(orgVisited[i].u)

----------------------------------------------------------------------------
(* Claims about a fetch for a subject the bucket does not hold *)

\* what the last read of the leaf l gave
LastRead(r, l) == r[l][Len(r[l])]

NotInRelease == Fail("ValueError:Subject not found in release")

\* C35: a read of a leaf whose file is fetched on demand asks the bucket
\* for the directory of the subject first: when the bucket does not hold
\* it the read fails, and the step leaves the files and the directories
\* of the disk as they were.
C35_MissingSubjectTouchesNothing ==
    [][\A l \in SaLeaves :
          (/\ accesses' = accesses + 1
           /\ remoteChecks' > remoteChecks
           /\ ~BucketHasSubject(auto_download_options.database,
                                auto_download_options.release, sa.id))
              => /\ fsFiles' = fsFiles
                 /\ fsDirs' = fsDirs
                 /\ (Len(ListOf(reads', l)) > Len(ListOf(reads, l))
                        => LastRead(reads', l) = NotInRelease)]_vars

\* a leaf of a subject the bucket does not hold was read with automatic
\* download on, the bucket was asked and the read failed
C35_Witness ==
    /\ sa.status = "built"
    /\ auto_download_options.enabled
    /\ ~BucketHasSubject(auto_download_options.database,
                         auto_download_options.release, sa.id)
    /\ remoteChecks > 0
    /\ \E l \in SaLeaves : Has(reads, l) /\ LastRead(reads, l) = NotInRelease
    /\ \E l \in SaLeaves : LeafPath(sa, l) \notin DOMAIN fsFiles
                             /\ Dirname(LeafPath(sa, l)) \notin fsDirs

----------------------------------------------------------------------------
(* The list of search paths under calls of add_subject_path alone, from   *)
(* the empty list the module starts with, with the directories /a, /b and *)
(* the home directory on the disk, /a spelled with and without a          *)
(* separator at its end and the home directory with and without the ~.    *)

SpelledPaths ==
    {DirA, DirA \o <<OsSep>>, DirB, DirN, <<"~">>, HomeDir,
     DirA \o <<":">> \o DirB, DirA \o <<":">> \o DirA}

SpelledInit ==
    /\ fsDirs = {DirA, DirB, HomeDir}
    /\ subjects_dirs = <<>>
    /\ threads = <<>>
    /\ auto_download_options = NoAutoDownload
    /\ sa = NoSubject
    /\ PthIdle
    /\ AutoIdle
    /\ CredIdle
    /\ fsFiles = EmptyDict
    /\ bucket = EmptyDict
    /\ roiAtlases = EmptyDict
    /\ sphereAtlases = [lh |-> EmptyDict, rh |-> EmptyDict]
    /\ loadCalls = EmptyDict
    /\ fetches = EmptyDict
    /\ remoteChecks = 0
    /\ reads = EmptyDict
    /\ accesses = 0
    /\ decodes = EmptyDict
    /\ roiLoads = EmptyDict
    /\ opens = 0
    /\ pathArg = NoPath
    /\ maskOut = Fail("idle")
    /\ DlIdle
    /\ sidArg = OtherArg
    /\ sidResult = Idle
    /\ OrgIdle
    /\ SplIdle

\* add_subject_path(path) or add_subject_path(path, index)
AddSpelled ==
    /\ pthCalls < MaxPathCalls
    /\ \E path \in SpelledPaths, index \in PthIndexes :
          /\ Added(add_subject_path(subjects_dirs, path, index))
          /\ pthCall' = [op |-> "add_subject_path", arg |-> OtherArg, path |-> path,
                         index |-> index]
    /\ pthCalls' = pthCalls + 1
    /\ UNCHANGED <<fsDirs, auto_download_options, sa>>
    /\ PthFrame

SpelledNext == AddSpelled

SpecSpelled == SpelledInit /\ [][SpelledNext]_vars

(* Claims about a path added again *)

\* C36 as stated: after any sequence of calls of add_subject_path the
\* list of search paths holds no directory more than once.
C36_NoDirectoryTwice ==
    \A i, j \in DOMAIN subjects_dirs :
        i # j => DirOf(subjects_dirs[i]) # DirOf(subjects_dirs[j])

\* C36 as the code has it: after any sequence of calls of add_subject_path
\* the list of search paths holds no path, as the string expanduser gives,
\* more than once; a call all of whose parts are directories whose
\* strings are in the list returns True and leaves the list as it was.
C36_NoPathTwice ==
    /\ [](\A i, j \in DOMAIN subjects_dirs : i # j => subjects_dirs[i] # subjects_dirs[j])
    /\ [][(/\ PathCall("add_subject_path")
           /\ \A part \in PartsOf(pthCall'.path) :
                 isdir(expanduser(part)) /\ expanduser(part) \in Range(subjects_dirs))
              => pthOut'.ok /\ subjects_dirs' = subjects_dirs]_vars

\* the second call was add_subject_path('/a', 0) and returned True, and
\* the list is ['/b', '/a']: /a was in the list before the call, which
\* would otherwise have put it at the front
C36_Witness ==
    /\ pthCalls = 2
    /\ pthCall.path = DirA
    /\ pthCall.index = [given |-> TRUE, k |-> 0]
    /\ pthOut.ok
    /\ subjects_dirs = <<DirB, DirA>>

----------------------------------------------------------------------------
(* The switch of the automatic download with its first checks: s3fs may   *)
(* have failed to load, the credentials are given or detected, the list   *)
(* of search paths may be empty and the release may not be in the bucket. *)
(* The environment sets none of the HCP_ and S3FS_ variables.             *)

\* credentials=None
CredNone == [NoCredArg EXCEPT !.t = "None"]

\* the files detect_credentials looks for, in its order
DetectFiles ==
    <<HomeDir \o <<OsSep, ".hcp-credentials">>, HomeDir \o <<OsSep, ".hcp-passwd">>,
      HomeDir \o <<OsSep, ".passwd-hcp">>, HomeDir \o <<OsSep, ".s3fs-credentials">>,
      HomeDir \o <<OsSep, ".s3fs-passwd">>, HomeDir \o <<OsSep, ".passwd-s3fs">> >>

\* detect_credentials() over the files of disk: the first of the files
\* that is there and that load_credentials accepts
detect_credentials(disk) ==
    LET good == {i \in DOMAIN DetectFiles :
                    load_credentials(disk, DetectFiles[i]).err = "none"}
    IN  IF good = {} THEN CredRaise("ValueError:No valid credentials for the HCP were detected")
        ELSE load_credentials(disk, DetectFiles[Min(good)])

\* (s3fs_key, s3fs_secret) = detect_credentials() or to_credentials(credentials)
KeyAndSecret(disk, credentials) ==
    LET r == IF credentials = CredNone THEN detect_credentials(disk)
             ELSE to_credentials(disk, credentials)
    IN  IF r.err = "none" /\ Len(r.v) # 2 THEN CredRaise("ValueError:unpack") ELSE r

\* a call that forgets the options when it raises
AutoDownloadReset(lib, creds, status, subjects_path, overwrite, release, database) ==
    IF ~status THEN auto_download(status, subjects_path, overwrite, release, database)
    ELSE IF ~lib THEN [err |-> "RuntimeError:s3fs was not successfully loaded",
                       opts |-> NoAutoDownload]
    ELSE IF creds.err # "none" THEN [err |-> creds.err, opts |-> NoAutoDownload]
    ELSE [auto_download(status, subjects_path, overwrite, release, database)
            EXCEPT !.opts = IF auto_download(status, subjects_path, overwrite, release,
                                             database).err = "none"
                            THEN @ ELSE NoAutoDownload]

\* auto_download(status, credentials=..., subjects_path=..., ...) from its
\* first line: lib is whether s3fs is loaded, creds what the credentials
\* given or detected came to
AutoDownloadWith(lib, creds, status, subjects_path, overwrite, release, database) ==
    IF ~status THEN auto_download(status, subjects_path, overwrite, release, database)
    ELSE IF ~lib THEN [err |-> "RuntimeError:s3fs was not successfully loaded",
                       opts |-> auto_download_options]
    ELSE IF creds.err # "none" THEN [err |-> creds.err, opts |-> auto_download_options]
    ELSE auto_download(status, subjects_path, overwrite, release, database)

\* the credentials files on the disk: none, one with a key and a secret,
\* one with a key alone
SwitchDisks ==
    {<<>>, (DetectFiles[1] :> <<"k", ":", "s", "\n">>), (DetectFiles[1] :> <<"k", "\n">>)}

\* the credentials given: none, 'k:s', 'k' and a number
SwitchCredentials == {CredNone, CredStr(<<"k", ":", "s">>), CredStr(<<"k">>), NoCredArg}

SwitchInit ==
    /\ SaInitFor(HomeSubject.id, Arr2(<< <<11, 12>>, <<21, 22>> >>),
                 [auto |-> FALSE, ids |-> {}, present |-> {}, sdir |-> TRUE,
                  remote |-> SaFiles])
    /\ subjects_dirs \in {<<>>, <<SubjectsRoot>>}
    /\ s3fs \in BOOLEAN
    /\ credDisk \in SwitchDisks
    /\ credArg = NoCredArg
    /\ credOut = CredNoOut
    /\ roiAtlases = EmptyDict
    /\ sphereAtlases = [lh |-> EmptyDict, rh |-> EmptyDict]
    /\ sa = NoSubject
    /\ loadCalls = EmptyDict
    /\ fetches = EmptyDict
    /\ remoteChecks = 0
    /\ reads = EmptyDict
    /\ accesses = 0
    /\ decodes = EmptyDict
    /\ roiLoads = EmptyDict
    /\ opens = 0
    /\ pathArg = NoPath
    /\ maskOut = Fail("idle")
    /\ PthIdle
    /\ AutoIdle
    /\ NoThreads
    /\ DlIdle
    /\ sidArg = OtherArg
    /\ sidResult = Idle
    /\ OrgIdle
    /\ SplIdle

\* what a call of auto_download does not touch
SwitchFrame ==
    UNCHANGED <<fsFiles, fsDirs, bucket, subjects_dirs, roiAtlases, sphereAtlases, sa,
                loadCalls, fetches, remoteChecks, reads, accesses, decodes, roiLoads,
                opens, pathArg, maskOut, fetchedFrom, pulledFrom, dlOrder, dlArgs, dlOut,
                dlBefore, dlCalls, dlLoads, pthVars, credDisk, credOut, s3fs, threads,
                sidArg, sidResult, orgVars, splVars>>

\* auto_download(True, credentials=..., subjects_path=..., release=...)
SwitchOnWith ==
    /\ autoCalls < MaxToggles
    /\ \E credentials \in SwitchCredentials, subjects_path \in {NoPath, SubjectsRoot},
          release \in {"HCP_1200", "HCP_900"} :
          /\ Switched(AutoDownloadWith(s3fs, KeyAndSecret(credDisk, credentials), TRUE,
                                       subjects_path, FALSE, release, "hcp-openaccess"))
          /\ autoArgs' = [status |-> TRUE, subjects_path |-> subjects_path,
                          overwrite |-> FALSE, release |-> release,
                          database |-> "hcp-openaccess"]
          /\ credArg' = credentials
    /\ autoCalls' = autoCalls + 1
    /\ SwitchFrame

\* auto_download(False)
SwitchOffWith ==
    /\ autoCalls < MaxToggles
    /\ Switched(AutoDownloadWith(s3fs, CredRet(<<>>), FALSE, NoPath, FALSE, "HCP_1200",
                                 "hcp-openaccess"))
    /\ autoArgs' = [status |-> FALSE, subjects_path |-> NoPath, overwrite |-> FALSE,
                    release |-> "HCP_1200", database |-> "hcp-openaccess"]
    /\ credArg' = NoCredArg
    /\ autoCalls' = autoCalls + 1
    /\ SwitchFrame

SwitchNext == SwitchOnWith \/ SwitchOffWith

SpecSwitch == SwitchInit /\ [][SwitchNext]_vars

(* Claims about a switch that fails *)

\* the errors of auto_download(True, ...) the model has: the library is
\* missing, no credentials, no subjects path, release not in the bucket
SwitchErrors ==
    {"RuntimeError:s3fs was not successfully loaded",
     "ValueError:No valid credentials for the HCP were detected",
     "ValueError:given argument cannot be coerced to credentials",
     "ValueError:unpack",
     "ValueError:No subjects path given or found",
     "ValueError:database/release not found"}

\* C37: a call auto_download(True, ...) that raises, because s3fs is not
\* loaded, no credentials are found or given, no subjects path is given
\* or found, or the release is not in the bucket, leaves the options of
\* the automatic download exactly as they were, absent or enabled; it
\* raises in each of these cases.
C37_FailedSwitchKeepsOptions ==
    [][(AutoCall /\ autoArgs'.status) =>
          /\ autoOut' # "none" =>
                /\ autoOut' \in SwitchErrors
                /\ auto_download_options' = auto_download_options
          /\ (\/ ~s3fs
              \/ KeyAndSecret(credDisk, credArg').err # "none"
              \/ (autoArgs'.subjects_path = NoPath /\ subjects_dirs = <<>>)
              \/ autoArgs'.release = "HCP_900") => autoOut' # "none"]_vars

\* the automatic download was switched on, and a second call, for a
\* release the bucket does not hold, raised: the options are those of the
\* first call
C37_Witness ==
    /\ autoCalls = 2
    /\ autoArgs.status
    /\ autoOut = "ValueError:database/release not found"
    /\ auto_download_options.enabled
    /\ auto_download_options.release = "HCP_1200"
    /\ autoArgs.release = "HCP_900"

----------------------------------------------------------------------------
(* The calls of download that are refused: download is called for the     *)
(* subject of the bucket, for a subject the bucket does not hold and for  *)
(* a number that is no subject id, in the release of the bucket and in    *)
(* another, over a disk that holds none or some of the files.             *)

\* the subject ids given: the subject of the bucket, the other subject
\* and a number out of the range of the ids
RefusedSids == {s.id : s \in Subjects} \cup {5}

RefusedInit ==
    /\ \E present \in {{}, SaFiles \ {AtlasRFile}}, order \in DlOrders :
          DlInitFor(HomeSubject.id, present, SaFiles, order)
    /\ subjects_dirs = <<SubjectsRoot>>
    /\ roiAtlases = EmptyDict
    /\ sphereAtlases = [lh |-> EmptyDict, rh |-> EmptyDict]
    /\ sa = NoSubject
    /\ loadCalls = EmptyDict
    /\ fetches = EmptyDict
    /\ remoteChecks = 0
    /\ reads = EmptyDict
    /\ accesses = 0
    /\ decodes = EmptyDict
    /\ roiLoads = EmptyDict
    /\ opens = 0
    /\ pathArg = NoPath
    /\ maskOut = Fail("idle")
    /\ PthIdle
    /\ AutoIdle
    /\ CredIdle
    /\ NoThreads
    /\ fetchedFrom = EmptyDict
    /\ pulledFrom = EmptyDict
    /\ dlArgs = NoCall
    /\ dlOut = Fail("idle")
    /\ dlBefore = EmptyDict
    /\ dlCalls = 0
    /\ dlLoads = 0
    /\ sidArg = OtherArg
    /\ sidResult = Idle
    /\ OrgIdle
    /\ SplIdle

\* download(sid, overwrite=..., release=...)
DownloadAny ==
    /\ dlCalls < MaxCalls
    /\ \E sid \in RefusedSids, overwrite \in {"False", "True"},
          release \in {"HCP_1200", "HCP_900"} :
          /\ Downloaded(download(World, sid, NoPath, overwrite, release,
                                 "hcp-openaccess", dlOrder))
          /\ dlArgs' = [sid |-> sid, subjects_path |-> SubjectsRoot,
                        overwrite |-> overwrite, release |-> release]
    /\ dlBefore' = fsFiles
    /\ dlCalls' = dlCalls + 1
    /\ UNCHANGED <<pthVars, autoVars, credVars, threads,
                   bucket, auto_download_options, subjects_dirs, sa, loadCalls, reads,
                   accesses, opens, pathArg, maskOut, dlOrder, dlLoads, sidArg, sidResult,
                   orgVars, splVars>>

RefusedNext == DownloadAny

SpecRefused == RefusedInit /\ [][RefusedNext]_vars

(* Claims about a download that is refused *)

\* the release is not in the bucket, the number is no subject id, or the
\* bucket does not hold the subject
RefusedCall(sid, release) ==
    \/ \A k \in DOMAIN bucket : k.db # "hcp-openaccess" \/ k.rl # release
    \/ to_subject_id(IntArg(sid)).err # "none"
    \/ ~BucketHasSubject("hcp-openaccess", release, sid)

\* C38: a call of download for a release or a subject the bucket does not
\* hold, or for an invalid subject id, raises and leaves the disk as it
\* was: no directory made, no file written, no object fetched.
C38_RefusedDownloadWritesNothing ==
    [][(dlCalls' = dlCalls + 1 /\ RefusedCall(dlArgs'.sid, dlArgs'.release)) =>
          /\ dlOut'.err # "none"
          /\ fsDirs' = fsDirs
          /\ fsFiles' = fsFiles
          /\ fetches' = fetches
          /\ pulledFrom' = pulledFrom]_vars

\* download was called for the subject the bucket does not hold, over a
\* disk with no file of any subject: it raised, and the disk holds the
\* directory of the subjects alone
C38_Witness ==
    /\ dlCalls = 1
    /\ dlArgs.sid # HomeSubject.id
    /\ dlOut = Fail("ValueError:Subject not found in release")
    /\ fsFiles = EmptyDict
    /\ fsDirs = {SubjectsRoot}
    /\ fetches = EmptyDict

----------------------------------------------------------------------------
(* Claims about the tables and the file map *)

\* the files the tables name: imgs[name] and hems[h][table][name]
TableFiles ==
    {imgs[n] : n \in DOMAIN imgs}
        \cup UNION {UNION {{hems[h][t][n] : n \in DOMAIN hems[h][t]}
                           : t \in {"surfaces", "registrations", "properties"}}
                    : h \in DOMAIN hems}

\* the paths of the directories of the structure
DirNodes == {PathJoin(<<>>, ss[i][1]) : i \in {j \in DOMAIN ss : ss[j][2].type = "dir"}}

\* C39: in the tables returned, every file an image or a surface,
\* registration or property of a hemisphere is registered under is a key
\* of the file map, every key of the file map is the file of at least one
\* of them, and no directory of the structure is a key or a file of its
\* own.
C39_TablesAndFilemapAgree ==
    orgStatus = "returned" =>
        /\ TableFiles \subseteq DOMAIN fmap
        /\ DOMAIN fmap \subseteq TableFiles
        /\ DirNodes \cap (DOMAIN fmap \cup TableFiles) = {}

\* the tables were returned for a structure with a tuple of two leaves at
\* one key and a leaf in a directory: three entries, two files
C39_Witness ==
    /\ orgStatus = "returned"
    /\ ss[1][2].type = "tuple"
    /\ DirNodes # {}
    /\ Cardinality(DOMAIN fmap) = 2
    /\ Cardinality(TableTriples(imgs, hems)) >= 3
    /\ imgs # EmptyDict /\ hems # EmptyDict

====
